---- MODULE Spec2Model ----
(***************************************************************************)
(* Sale / stock / settlement flow of the retail POS.                       *)
(*                                                                         *)
(* Money is counted in minor units (0.01).  tax_rate is a DecimalField     *)
(* with four decimal places and is kept as an integer number of 1/10000.   *)
(* The catalogue of the model uses even prices and the rates 0 and 0.5, so *)
(* every amount the handlers compute is a whole number of minor units.     *)
(***************************************************************************)
EXTENDS Integers, Sequences, FiniteSets, TLC

(* ------------------------------------------------------------------ *)
(* Bounds of the model                                                  *)
(* ------------------------------------------------------------------ *)
MaxSales == 1
MaxAdjust == 1
MaxInvoices == 2
MaxPayments == 1

(* ------------------------------------------------------------------ *)
(* Catalogue and customers present before the first request            *)
(* ------------------------------------------------------------------ *)
NoUser == "None"

Products == {"p1", "p2", "p3"}

\* Product rows: p1 is stock-tracked, p2 is not, p3 is tracked and not for sale.
\* wholesale_price 0 stands for a price that is not set.
ProductTable ==
    [p \in Products |->
        IF p = "p1"
        THEN [sell_price |-> 2, wholesale_price |-> 0,
              minimum_wholesale_quantity |-> 1, tax_rate |-> 5000,
              track_stock |-> TRUE, is_active |-> TRUE]
        ELSE IF p = "p2"
        THEN [sell_price |-> 3, wholesale_price |-> 0,
              minimum_wholesale_quantity |-> 1, tax_rate |-> 0,
              track_stock |-> FALSE, is_active |-> TRUE]
        ELSE [sell_price |-> 2, wholesale_price |-> 0,
              minimum_wholesale_quantity |-> 1, tax_rate |-> 0,
              track_stock |-> TRUE, is_active |-> FALSE]]

InitStock == [p \in Products |-> 2]

\* Customers: "w" is a wholesale customer, "v" a vip customer, nobody has the
\* phone "n" yet (create_sale creates that customer, of type retail).
Phones == {"w", "v", "n"}
OldName == "old"
ReqName == "new"

Cashier == "u1"

(* ------------------------------------------------------------------ *)
(* Request inputs                                                       *)
(* ------------------------------------------------------------------ *)
It(p, q) == [product_id |-> p, quantity |-> q, discount |-> 0]

\* Item lists of the requests: one tracked line (total 3), a tracked and an
\* untracked line (total 6), one tracked product on two lines whose quantities
\* each fit the initial stock and together exceed it (total 9), and a product
\* that is not for sale.
ItemLists ==
    { <<It("p1", 1)>>,
      <<It("p1", 1), It("p2", 1)>>,
      <<It("p1", 1), It("p1", 2)>>,
      <<It("p3", 1)>> }

\* Payment lists of the requests: the sums 2, 3 and 6 lie below T/2, at T/2,
\* between T/2 and T, at T and above T for the totals above.
PaymentLists == {<<2>>, <<1, 2>>, <<3, 3>>}

SaleDiscounts == {0}

\* adjust_stock requests: the product and the signed quantity.
AdjustProducts == {"p1"}
Deltas == {-1, 1}

\* void requests: the acting user, the reason and timezone.now().
VoidInputs == {[user |-> "u1", reason |-> "r1", now |-> 1],
               [user |-> "u2", reason |-> "r2", now |-> 2]}

VARIABLES
    stock,        \* Product.stock, by product
    adjustments,  \* InventoryAdjustment rows, in insertion order
    customers,    \* Customer rows by phone (exists = FALSE: no such row)
    sales,        \* Sale rows with their SaleItem and Payment rows
    invoices,     \* Invoice rows with their InvoiceItem and InvoicePayment rows
    payments,     \* Payment rows written by invoice_record_payment
    today,        \* the date of the clock, in days
    procs,        \* requests in progress that are interleaved with others
    call          \* the last evaluation of a function on drawn inputs

vars == <<stock, adjustments, customers, sales,
          invoices, payments, today, procs, call>>

\* The tables of the wholesale app, the clock and the requests in progress.
wholesale == <<invoices, payments, today, procs, call>>

(* ------------------------------------------------------------------ *)
(* Helpers                                                              *)
(* ------------------------------------------------------------------ *)
RECURSIVE SumSeq(_)
SumSeq(s) == IF s = << >> THEN 0 ELSE Head(s) + SumSeq(Tail(s))

\* Total quantity of product p over a list of SaleItem rows.
RECURSIVE LineQty(_, _)
LineQty(items, p) ==
    IF items = << >> THEN 0
    ELSE (IF Head(items).product = p THEN Head(items).quantity ELSE 0)
         + LineQty(Tail(items), p)

(* ------------------------------------------------------------------ *)
(* catalog.models.Product                                               *)
(* ------------------------------------------------------------------ *)
\* Product.can_sell on the row as read from the database.
can_sell(active, track, stk, quantity) ==
    IF ~active THEN FALSE
    ELSE IF track /\ stk < quantity THEN FALSE
    ELSE TRUE

\* Mutant of adjust_stock: old_stock is read after the stock has moved.
adjust_stock_StaleOld(db, p, quantity, reason, performed_by) ==
    LET new_stock == db.stock[p] + quantity
    IN  [stock |-> [db.stock EXCEPT ![p] = new_stock],
         adjustments |-> Append(db.adjustments,
                            [product |-> p, quantity_change |-> quantity,
                             old_stock |-> new_stock, new_stock |-> new_stock,
                             reason |-> reason, performed_by |-> performed_by])]

\* Product.adjust_stock on a database image db = [stock, adjustments].
adjust_stock(db, p, quantity, reason, performed_by) ==
    LET old_stock == db.stock[p]
        new_stock == old_stock + quantity
    IN  [stock |-> [db.stock EXCEPT ![p] = new_stock],
         adjustments |-> Append(db.adjustments,
                            [product |-> p, quantity_change |-> quantity,
                             old_stock |-> old_stock, new_stock |-> new_stock,
                             reason |-> reason, performed_by |-> performed_by])]

\* Mutant of get_price_for_customer: the discount is taken off sell_price
\* before the tier is selected, so the wholesale tier carries none.
get_price_for_customer_DiscountFirst(prod, customer, quantity) ==
    LET retail == IF customer.discount_percentage > 0
                  THEN prod.sell_price
                       - (prod.sell_price * customer.discount_percentage) \div 100
                  ELSE prod.sell_price
    IN  IF customer.customer_type = "wholesale"
           /\ prod.wholesale_price > 0
           /\ quantity >= prod.minimum_wholesale_quantity
        THEN prod.wholesale_price
        ELSE retail

\* Product.get_price_for_customer: the price part of the returned tuple.
get_price_for_customer(prod, customer, quantity) ==
    LET tier == IF customer.customer_type = "wholesale"
                   /\ prod.wholesale_price > 0
                   /\ quantity >= prod.minimum_wholesale_quantity
                THEN prod.wholesale_price
                ELSE prod.sell_price
    IN  IF customer.discount_percentage > 0
        THEN tier - (tier * customer.discount_percentage) \div 100
        ELSE tier

\* Product.get_price_for_customer: the price_type part of the returned
\* tuple, <<tier>> or <<tier, discount_percentage>> for "<tier> +<d>% discount".
get_price_type(prod, customer, quantity) ==
    LET tier == IF customer.customer_type = "wholesale"
                   /\ prod.wholesale_price > 0
                   /\ quantity >= prod.minimum_wholesale_quantity
                THEN "wholesale"
                ELSE "retail"
    IN  IF customer.discount_percentage > 0
        THEN <<tier, customer.discount_percentage>>
        ELSE <<tier>>

(* ------------------------------------------------------------------ *)
(* pos.models                                                           *)
(* ------------------------------------------------------------------ *)
\* SaleItem.tax_amount
tax_amount(item) ==
    ((item.unit_price * item.quantity - item.discount) * item.tax_rate) \div 10000

\* SaleItem.save: line_total is filled in when it is not set.
SaleItemRow(item_data, unit_price, tax_rate) ==
    [product |-> item_data.product_id, quantity |-> item_data.quantity,
     unit_price |-> unit_price, tax_rate |-> tax_rate,
     discount |-> item_data.discount,
     line_total |-> unit_price * item_data.quantity - item_data.discount]

RECURSIVE SumLineTotal(_)
SumLineTotal(items) ==
    IF items = << >> THEN 0 ELSE Head(items).line_total + SumLineTotal(Tail(items))

RECURSIVE SumTax(_)
SumTax(items) ==
    IF items = << >> THEN 0 ELSE tax_amount(Head(items)) + SumTax(Tail(items))

\* Sale.calculate_totals
calculate_totals(sale) ==
    LET subtotal == SumLineTotal(sale.items)
        tax == SumTax(sale.items)
    IN  [sale EXCEPT !.subtotal = subtotal, !.tax = tax,
                     !.total = subtotal + tax - sale.discount]

\* timezone.now() of a completion; 0 stands for a field that is not set.
Now == 1

\* Mutant of AdjustItems: only the first line of the sale moves stock.
AdjustItems_FirstLineOnly(db, items, sign, reason, performed_by) ==
    IF items = << >> \/ ~ProductTable[Head(items).product].track_stock THEN db
    ELSE adjust_stock(db, Head(items).product, sign * Head(items).quantity,
                      reason, performed_by)

\* The loop of complete_sale / void_sale over the items, sign = -1 or +1.
RECURSIVE AdjustItems(_, _, _, _, _)
AdjustItems(db, items, sign, reason, performed_by) ==
    IF items = << >> THEN db
    ELSE LET item == Head(items)
             db1 == IF ProductTable[item.product].track_stock
                    THEN adjust_stock(db, item.product, sign * item.quantity,
                                      reason, performed_by)
                    ELSE db
         IN  AdjustItems(db1, Tail(items), sign, reason, performed_by)

\* Mutant of complete_sale: the status of the sale is not looked at.
complete_sale_NoGuard(db, sale) ==
    [ok |-> TRUE,
     db |-> AdjustItems(db, sale.items, -1, "sale", sale.cashier),
     sale |-> [sale EXCEPT !.status = "completed", !.completed_at = Now]]

\* Sale.complete_sale: [ok, db, sale]
complete_sale(db, sale) ==
    IF sale.status # "pending"
    THEN [ok |-> FALSE, db |-> db, sale |-> sale]
    ELSE [ok |-> TRUE,
          db |-> AdjustItems(db, sale.items, -1, "sale", sale.cashier),
          sale |-> [sale EXCEPT !.status = "completed", !.completed_at = Now]]

\* Mutant of void_sale: a voided sale is voided again.
void_sale_NoGuard(db, sale, user, reason, now) ==
    [ok |-> TRUE,
     db |-> AdjustItems(db, sale.items, 1, "return", user),
     sale |-> [sale EXCEPT !.status = "voided", !.voided_at = now,
                           !.voided_by = user, !.void_reason = reason]]

\* Mutant of void_sale: stock is given back for a completed sale only.
void_sale_CompletedOnly(db, sale, user, reason, now) ==
    IF sale.status = "voided"
    THEN [ok |-> FALSE, db |-> db, sale |-> sale]
    ELSE [ok |-> TRUE,
          db |-> IF sale.status = "completed"
                 THEN AdjustItems(db, sale.items, 1, "return", user)
                 ELSE db,
          sale |-> [sale EXCEPT !.status = "voided", !.voided_at = now,
                                !.voided_by = user, !.void_reason = reason]]

\* Sale.void_sale: [ok, db, sale]
void_sale(db, sale, user, reason, now) ==
    IF sale.status = "voided"
    THEN [ok |-> FALSE, db |-> db, sale |-> sale]
    ELSE [ok |-> TRUE,
          db |-> AdjustItems(db, sale.items, 1, "return", user),
          sale |-> [sale EXCEPT !.status = "voided", !.voided_at = now,
                                !.voided_by = user, !.void_reason = reason]]

(* ------------------------------------------------------------------ *)
(* State                                                                *)
(* ------------------------------------------------------------------ *)
NoCustomer ==
    [exists |-> FALSE, name |-> "", customer_type |-> "retail",
     current_balance |-> 0, discount_percentage |-> 0]

\* Customer row with the model defaults (customer_type retail, balance 0).
NewCustomer(name) == [NoCustomer EXCEPT !.exists = TRUE, !.name = name]

\* Sale.objects.create(...) of create_sale: the model defaults.
NewSale(phone, discount) ==
    [customer |-> phone, cashier |-> Cashier, discount |-> discount,
     items |-> << >>, payments |-> << >>,
     subtotal |-> 0, tax |-> 0, total |-> 0,
     payment_status |-> "pending", amount_paid |-> 0, status |-> "pending",
     completed_at |-> 0,
     voided_at |-> 0, voided_by |-> NoUser, void_reason |-> ""]

\* The database image the handlers work on.
DB == [stock |-> stock, adjustments |-> adjustments,
       customers |-> customers, sales |-> sales]

(* ------------------------------------------------------------------ *)
(* pos.views.SaleViewSet                                                *)
(* ------------------------------------------------------------------ *)
\* Index of the first item that fails can_sell, or Len + 1 when none does.
\* No stock is deducted inside the loop: every line is checked against the
\* stock in the database.
RECURSIVE FirstUnsellable(_, _)
FirstUnsellable(db, items_data) ==
    IF items_data = << >> THEN 1
    ELSE LET d == Head(items_data)
         IN  IF ~can_sell(ProductTable[d.product_id].is_active,
                          ProductTable[d.product_id].track_stock,
                          db.stock[d.product_id], d.quantity)
             THEN 1
             ELSE 1 + FirstUnsellable(db, Tail(items_data))

\* The SaleItem rows created for the first n request items.
RECURSIVE SaleItems(_, _, _)
SaleItems(items_data, customer, n) ==
    IF n = 0 \/ items_data = << >> THEN << >>
    ELSE LET d == Head(items_data)
             prod == ProductTable[d.product_id]
         IN  <<SaleItemRow(d, get_price_for_customer(prod, customer, d.quantity),
                           prod.tax_rate)>>
             \o SaleItems(Tail(items_data), customer, n - 1)

\* Mutant of SettlementPolicy: a wholesale payment of exactly half is refused.
SettlementPolicy_HalfExclusive(customer_type, total, total_payment) ==
    IF customer_type = "wholesale"
    THEN IF 2 * total_payment <= total THEN "wholesale_minimum"
         ELSE IF total_payment < total THEN "partial"
         ELSE "full"
    ELSE IF total_payment < total THEN "insufficient_payment"
         ELSE "full"

\* Mutant of SettlementPolicy: a retail payment of exactly the total is refused.
SettlementPolicy_RetailExclusive(customer_type, total, total_payment) ==
    IF customer_type = "wholesale"
    THEN IF 2 * total_payment < total THEN "wholesale_minimum"
         ELSE IF total_payment < total THEN "partial"
         ELSE "full"
    ELSE IF total_payment <= total THEN "insufficient_payment"
         ELSE "full"

\* Lines 112-134 of create_sale: the decision on the summed payments.
\* total * Decimal('0.5') is compared exactly: P < T/2 iff 2P < T.
SettlementPolicy(customer_type, total, total_payment) ==
    IF customer_type = "wholesale"
    THEN IF 2 * total_payment < total THEN "wholesale_minimum"
         ELSE IF total_payment < total THEN "partial"
         ELSE "full"
    ELSE IF total_payment < total THEN "insufficient_payment"
         ELSE "full"

\* Mutant of RejectOnPolicy: the shortfall is booked before the check returns.
RejectOnPolicy_BooksFirst(db, customers1, sale2) ==
    [db EXCEPT !.customers =
                  [customers1 EXCEPT ![sale2.customer].current_balance =
                       @ + (sale2.total - SumSeq(sale2.payments))],
               !.sales = Append(db.sales,
                                [sale2 EXCEPT !.payment_status = "partial"])]

\* The image committed when the settlement check returns its 400 response
\* (lines 115-119 and 130-134): the customer, the pending sale, its items and
\* its payments; nothing else has been written at that point.
RejectOnPolicy(db, customers1, sale2) ==
    [db EXCEPT !.customers = customers1, !.sales = Append(db.sales, sale2)]

\* Lines 121-137: the partial-payment bookkeeping, then complete_sale.
AcceptOnPolicy(db, customers1, sale2, verdict) ==
    LET total_payment == SumSeq(sale2.payments)
        sale3 == IF verdict = "partial"
                 THEN [sale2 EXCEPT !.payment_status = "partial"]
                 ELSE sale2
        customers2 ==
            IF verdict = "partial"
            THEN [customers1 EXCEPT ![sale2.customer].current_balance =
                      @ + (sale2.total - total_payment)]
            ELSE customers1
        done == complete_sale(db, sale3)
    IN  [stock |-> done.db.stock,
         adjustments |-> done.db.adjustments,
         customers |-> customers2,
         sales |-> Append(db.sales, done.sale)]

\* create_sale on the database image db: the image that is committed and the
\* response.  The handler runs in transaction.atomic; a returned 400 response
\* raises nothing, so everything written before the return is committed.
create_sale(db, req) ==
    LET old == db.customers[req.phone]
        customer == IF old.exists THEN [old EXCEPT !.name = ReqName]
                    ELSE NewCustomer(ReqName)
        customers1 == [db.customers EXCEPT ![req.phone] = customer]
        sale0 == NewSale(req.phone, req.discount)
        id == Len(db.sales) + 1
        k == FirstUnsellable(db, req.items)
    IN  IF k <= Len(req.items)
        THEN \* return 400: the sale and the items created so far stay
             [db |-> [db EXCEPT !.customers = customers1,
                        !.sales = Append(db.sales,
                           [sale0 EXCEPT !.items = SaleItems(req.items, customer, k - 1)])],
              result |-> "cannot_sell", sale |-> id]
        ELSE
        LET sale1 == calculate_totals(
                        [sale0 EXCEPT !.items = SaleItems(req.items, customer, k - 1)])
            sale2 == [sale1 EXCEPT !.payments = req.payments]
            verdict == SettlementPolicy(customer.customer_type, sale2.total,
                                        SumSeq(req.payments))
        IN  IF verdict \in {"wholesale_minimum", "insufficient_payment"}
            THEN [db |-> RejectOnPolicy(db, customers1, sale2),
                  result |-> verdict, sale |-> id]
            ELSE [db |-> AcceptOnPolicy(db, customers1, sale2, verdict),
                  result |-> "created", sale |-> id]

\* Mutant of void: the shortfall of a partially paid sale is taken off the
\* customer's balance again.
void_RefundsBalance(db, id, inp) ==
    LET r == void_sale(db, db.sales[id], inp.user, inp.reason, inp.now)
        owed == IF r.sale.payment_status = "partial"
                THEN r.sale.total - SumSeq(r.sale.payments) ELSE 0
    IN  IF r.ok
        THEN [db |-> [db EXCEPT !.stock = r.db.stock,
                        !.adjustments = r.db.adjustments,
                        !.sales[id] = r.sale,
                        !.customers[r.sale.customer].current_balance = @ - owed],
              result |-> "voided", sale |-> id]
        ELSE [db |-> db, result |-> "invalid_state", sale |-> id]

\* void: the ValueError of void_sale becomes a 400 response.
void(db, id, inp) ==
    LET r == void_sale(db, db.sales[id], inp.user, inp.reason, inp.now)
    IN  IF r.ok
        THEN [db |-> [db EXCEPT !.stock = r.db.stock,
                        !.adjustments = r.db.adjustments,
                        !.sales[id] = r.sale],
              result |-> "voided", sale |-> id]
        ELSE [db |-> db, result |-> "invalid_state", sale |-> id]

(* ------------------------------------------------------------------ *)
(* Failure of a stock deduction inside complete_sale                    *)
(* ------------------------------------------------------------------ *)
\* Where an exception leaves Product.adjust_stock: the tracked line it is
\* called for, and whether save() or InventoryAdjustment.objects.create
\* raises (the stock is written in the second case, the row in neither).
FaultLines == {1, 2}

FaultPoints == {"save", "create"}

Faults == [line : FaultLines, at : FaultPoints]

\* Mutant of atomic: what the block wrote before it raised stays written.
atomic_NoRollback(before, r) == r

\* transaction.atomic around a block with outcome r = [raised, db, ...],
\* entered with the database image before: an exception leaving the block
\* rolls the database back to the image at entry and is raised again.
atomic(before, r) ==
    IF r.raised THEN [r EXCEPT !.db = before] ELSE r

\* The loop of complete_sale when the adjust_stock call of the tracked line
\* fault.line raises: [raised, db] with db as written up to the exception.
RECURSIVE AdjustItemsUntil(_, _, _, _, _, _)
AdjustItemsUntil(db, items, sign, reason, performed_by, fault) ==
    IF items = << >> THEN [raised |-> FALSE, db |-> db]
    ELSE LET item == Head(items)
             moved == adjust_stock(db, item.product, sign * item.quantity,
                                   reason, performed_by)
         IN  IF ~ProductTable[item.product].track_stock
             THEN AdjustItemsUntil(db, Tail(items), sign, reason,
                                   performed_by, fault)
             ELSE IF fault.line = 1
             THEN [raised |-> TRUE,
                   db |-> IF fault.at = "save" THEN db
                          ELSE [db EXCEPT !.stock = moved.stock]]
             ELSE AdjustItemsUntil(
                      [db EXCEPT !.stock = moved.stock,
                                 !.adjustments = moved.adjustments],
                      Tail(items), sign, reason, performed_by,
                      [fault EXCEPT !.line = @ - 1])

\* The body of Sale.complete_sale under the fault: [raised, db, sale].
complete_sale_body(db, sale, fault) ==
    IF sale.status # "pending"
    THEN [raised |-> TRUE, db |-> db, sale |-> sale]
    ELSE LET r == AdjustItemsUntil(db, sale.items, -1, "sale", sale.cashier,
                                   fault)
         IN  IF r.raised
             THEN [raised |-> TRUE, db |-> r.db, sale |-> sale]
             ELSE [raised |-> FALSE, db |-> r.db,
                   sale |-> [sale EXCEPT !.status = "completed",
                                         !.completed_at = Now]]

\* Sale.complete_sale under the fault, with its @transaction.atomic.
complete_sale_fault(db, sale, fault) ==
    atomic(db, complete_sale_body(db, sale, fault))

\* The body of create_sale under the fault: [raised, db, result, sale].
\* The exception of complete_sale is not caught in the view.
create_sale_body(db, req, fault) ==
    LET plain == create_sale(db, req)
        old == db.customers[req.phone]
        customer == IF old.exists THEN [old EXCEPT !.name = ReqName]
                    ELSE NewCustomer(ReqName)
        customers1 == [db.customers EXCEPT ![req.phone] = customer]
        sale2 == [calculate_totals(
                     [NewSale(req.phone, req.discount) EXCEPT
                         !.items = SaleItems(req.items, customer,
                                             Len(req.items))])
                  EXCEPT !.payments = req.payments]
        verdict == SettlementPolicy(customer.customer_type, sale2.total,
                                    SumSeq(req.payments))
        sale3 == IF verdict = "partial"
                 THEN [sale2 EXCEPT !.payment_status = "partial"]
                 ELSE sale2
        customers2 ==
            IF verdict = "partial"
            THEN [customers1 EXCEPT ![req.phone].current_balance =
                      @ + (sale2.total - SumSeq(req.payments))]
            ELSE customers1
        db3 == [db EXCEPT !.customers = customers2,
                          !.sales = Append(db.sales, sale3)]
        done == complete_sale_fault(db3, sale3, fault)
    IN  IF plain.result # "created"
        THEN [raised |-> FALSE, db |-> plain.db, result |-> plain.result,
              sale |-> plain.sale]
        ELSE IF done.raised
        THEN [raised |-> TRUE, db |-> done.db, result |-> "error",
              sale |-> plain.sale]
        ELSE [raised |-> FALSE,
              db |-> [done.db EXCEPT !.sales[Len(db3.sales)] = done.sale],
              result |-> "created", sale |-> plain.sale]

\* create_sale under the fault, with its @transaction.atomic.
create_sale_fault(db, req, fault) ==
    atomic(db, create_sale_body(db, req, fault))

(* ------------------------------------------------------------------ *)
(* Actions                                                              *)
(* ------------------------------------------------------------------ *)
Commit(out) ==
    /\ stock' = out.db.stock
    /\ adjustments' = out.db.adjustments
    /\ customers' = out.db.customers
    /\ sales' = out.db.sales
    /\ UNCHANGED wholesale

Requests ==
    [phone : Phones, items : ItemLists, payments : PaymentLists,
     discount : SaleDiscounts]

\* POST create_sale
CreateSale ==
    /\ Len(sales) < MaxSales
    /\ \E req \in Requests : Commit(create_sale(DB, req))

\* POST void on an existing sale
Void ==
    \E id \in 1..Len(sales), inp \in VoidInputs :
        Commit(void(DB, id, inp))

ManualRows == SelectSeq(adjustments, LAMBDA a : a.reason = "correction")

\* POST adjust_stock (ProductViewSet.adjust_stock)
AdjustStock ==
    /\ Len(ManualRows) < MaxAdjust
    /\ \E p \in AdjustProducts, q \in Deltas :
          Commit([db |-> [DB EXCEPT
                            !.stock = adjust_stock(DB, p, q, "correction", Cashier).stock,
                            !.adjustments =
                                adjust_stock(DB, p, q, "correction", Cashier).adjustments],
                  result |-> "stock adjusted", sale |-> 0])

Init ==
    /\ stock = InitStock
    /\ adjustments = << >>
    /\ customers = [ph \in Phones |->
                      IF ph = "w"
                      THEN [NewCustomer(OldName) EXCEPT !.customer_type = "wholesale"]
                      ELSE IF ph = "v"
                      THEN [NewCustomer(OldName) EXCEPT !.customer_type = "vip"]
                      ELSE NoCustomer]
    /\ sales = << >>
    /\ invoices = << >>
    /\ payments = << >>
    /\ today = 0
    /\ procs = << >>
    /\ call = << >>

\* Sale.complete_sale has one caller, create_sale (src/pos/views.py line 137):
\* it is part of CreateSale and no request of its own.
Next == CreateSale \/ Void \/ AdjustStock

Spec == Init /\ [][Next]_vars

\* POST create_sale in which a stock deduction of complete_sale raises.
CreateSaleFault ==
    /\ Len(sales) < MaxSales
    /\ \E req \in Requests, fault \in Faults :
          Commit(create_sale_fault(DB, req, fault))

NextFault == Next \/ CreateSaleFault

SpecFault == Init /\ [][NextFault]_vars

(* ------------------------------------------------------------------ *)
(* wholesale.models.Invoice                                             *)
(* ------------------------------------------------------------------ *)
\* Dates are counted in days from the first day of the model; a year has
\* DaysInYear of them and NoDate stands for a date that is not set.
DaysInYear == 365

NoDate == -1

year_of(date) == date \div DaysInYear

\* terms_days of calculate_due_date.
TermsDays(payment_terms) ==
    IF payment_terms = "net_30" THEN 30
    ELSE IF payment_terms = "net_15" THEN 15
    ELSE IF payment_terms = "net_7" THEN 7
    ELSE IF payment_terms \in {"due_on_receipt", "custom"} THEN 0
    ELSE 30

\* Invoice.calculate_due_date
calculate_due_date(invoice) == invoice.issue_date + TermsDays(invoice.payment_terms)

\* The decimal digits of n >= 0, most significant first.
RECURSIVE DigitsOf(_)
DigitsOf(n) == IF n < 10 THEN <<n>> ELSE DigitsOf(n \div 10) \o <<n % 10>>

\* f"{n:04d}": the digits of n, padded with zeros on the left to four.
Format04d(n) ==
    LET PadTo4(d) == [i \in 1..4 |-> IF i <= 4 - Len(d) THEN 0
                                     ELSE d[i - (4 - Len(d))]]
    IN  IF Len(DigitsOf(n)) >= 4 THEN DigitsOf(n) ELSE PadTo4(DigitsOf(n))

\* int(s) of a string of digits.
RECURSIVE IntOf(_)
IntOf(d) ==
    IF d = << >> THEN 0
    ELSE 10 * IntOf(SubSeq(d, 1, Len(d) - 1)) + d[Len(d)]

\* Max('invoice_number') over strings with one prefix: the greatest of the
\* strings S in the order of the characters, which is not the order of the
\* numbers once the strings differ in length.
RECURSIVE MaxString(_)
MaxString(S) ==
    LET T == S \ {<< >>}
        c == CHOOSE h \in {Head(x) : x \in T} :
                \A g \in {Head(x) : x \in T} : g <= h
    IN  IF T = {} THEN << >>
        ELSE <<c>> \o MaxString({Tail(x) : x \in {y \in T : Head(y) = c}})

\* The suffixes of the invoice numbers with the prefix "INV-<year>-".
SuffixesOf(invs, year) ==
    {invs[i].invoice_number.suffix :
        i \in {j \in 1..Len(invs) : invs[j].invoice_number.year = year}}

\* Invoice.generate_invoice_number on the invoice table invs at the date now:
\* the number as [year, suffix], for "INV-<year>-<suffix>".
generate_invoice_number(invs, now) ==
    LET year == year_of(now)
        same == SuffixesOf(invs, year)
        new_number == IF same # {} THEN IntOf(MaxString(same)) + 1 ELSE 1
    IN  [year |-> year, suffix |-> Format04d(new_number)]

\* Invoice.update_payment_status: the payment_status it assigns.
update_payment_status(invoice, now) ==
    LET first == IF invoice.amount_paid <= 0 THEN "unpaid"
                 ELSE IF invoice.amount_paid >= invoice.total_amount THEN "paid"
                 ELSE "partial"
    IN  IF first # "paid" /\ invoice.due_date < now THEN "overdue" ELSE first

NoNumber == [year |-> 0, suffix |-> << >>]

\* Invoice(...): the field defaults of a new instance.
NewInvoice(customer, sale, now) ==
    [invoice_number |-> NoNumber, customer |-> customer, sale |-> sale,
     issue_date |-> now, due_date |-> NoDate, payment_terms |-> "net_30",
     subtotal |-> 0, tax_amount |-> 0, discount_amount |-> 0,
     total_amount |-> 0, amount_paid |-> 0, payment_status |-> "unpaid",
     created_by |-> Cashier, items |-> << >>, invoice_payments |-> << >>]

\* Invoice.save up to super().save(): the row that is handed to the database.
InvoiceToSave(invs, invoice, now) ==
    LET a == IF invoice.invoice_number = NoNumber
             THEN [invoice EXCEPT
                      !.invoice_number = generate_invoice_number(invs, now)]
             ELSE invoice
        b == IF a.due_date = NoDate
             THEN [a EXCEPT !.due_date = calculate_due_date(a)]
             ELSE a
    IN  [b EXCEPT !.payment_status = update_payment_status(b, now)]

\* Mutant of UniqueViolation: the one-to-one link to the sale is not unique.
UniqueViolation_NumberOnly(invs, row) ==
    \E i \in 1..Len(invs) : invs[i].invoice_number = row.invoice_number

\* The INSERT of row violates unique=True of invoice_number or the
\* uniqueness of the OneToOneField sale (a NULL sale, 0, is not compared).
UniqueViolation(invs, row) ==
    \E i \in 1..Len(invs) :
        \/ invs[i].invoice_number = row.invoice_number
        \/ (row.sale # 0 /\ invs[i].sale = row.sale)

\* Invoice.objects.create: [ok, invoices, id]; ok = FALSE is IntegrityError.
InvoiceCreate(invs, invoice, now) ==
    LET row == InvoiceToSave(invs, invoice, now)
    IN  IF UniqueViolation(invs, row)
        THEN [ok |-> FALSE, invoices |-> invs, id |-> 0]
        ELSE [ok |-> TRUE, invoices |-> Append(invs, row), id |-> Len(invs) + 1]

\* invoice.save() of the row id: an UPDATE of every field.
InvoiceSave(invs, id, invoice, now) ==
    [invs EXCEPT ![id] = InvoiceToSave(invs, invoice, now)]

(* ------------------------------------------------------------------ *)
(* wholesale.models.InvoiceItem, InvoicePayment                         *)
(* ------------------------------------------------------------------ *)
\* InvoiceItem.subtotal
item_subtotal(item) == item.unit_price * item.quantity - item.discount

\* InvoiceItem.tax_amount, subtotal * (tax_rate / 100); the rate is kept in
\* 1/10000 and the amounts of the model make the product a whole number.
item_tax_amount(item) == (item_subtotal(item) * item.tax_rate) \div 1000000

\* InvoiceItem.objects.create: the row with the total that save() computes,
\* kept in millionths of a minor unit as it is before the column rounds it.
InvoiceItemRow(product, quantity, unit_price, discount, tax_rate) ==
    LET item == [product |-> product, quantity |-> quantity,
                 unit_price |-> unit_price, discount |-> discount,
                 tax_rate |-> tax_rate]
    IN  [product |-> product, quantity |-> quantity,
         unit_price |-> unit_price, discount |-> discount,
         tax_rate |-> tax_rate,
         total |-> item_subtotal(item) * 1000000
                   + item_subtotal(item) * tax_rate]

RECURSIVE SumAmount(_)
SumAmount(rows) ==
    IF rows = << >> THEN 0 ELSE Head(rows).amount + SumAmount(Tail(rows))

\* Mutant of InvoicePaymentSave: the link is stored, amount_paid is not
\* recomputed.
InvoicePaymentSave_NoRecompute(invs, id, link, now) ==
    [invs EXCEPT ![id].invoice_payments = Append(@, link)]

\* InvoicePayment.objects.create for the invoice id: the link row is stored,
\* amount_paid becomes the sum over all links of the invoice, and the
\* invoice is saved.
InvoicePaymentSave(invs, id, link, now) ==
    LET linked == Append(invs[id].invoice_payments, link)
        invoice == [invs[id] EXCEPT !.invoice_payments = linked,
                                    !.amount_paid = SumAmount(linked)]
    IN  InvoiceSave(invs, id, invoice, now)

\* Invoice.balance_due
balance_due(invoice) == invoice.total_amount - invoice.amount_paid

(* ------------------------------------------------------------------ *)
(* wholesale.views                                                      *)
(* ------------------------------------------------------------------ *)
\* The handlers work on the image idb = [invoices, payments] and answer with
\* the image they leave and a result.

\* The InvoiceItem rows of invoice_create for the posted lines.
RECURSIVE ManualItems(_)
ManualItems(lines) ==
    IF lines = << >> THEN << >>
    ELSE <<InvoiceItemRow(Head(lines).product_id, Head(lines).quantity,
                          Head(lines).unit_price, 0,
                          ProductTable[Head(lines).product_id].tax_rate)>>
         \o ManualItems(Tail(lines))

RECURSIVE SumItemSubtotal(_)
SumItemSubtotal(items) ==
    IF items = << >> THEN 0
    ELSE item_subtotal(Head(items)) + SumItemSubtotal(Tail(items))

RECURSIVE SumItemTax(_)
SumItemTax(items) ==
    IF items = << >> THEN 0
    ELSE item_tax_amount(Head(items)) + SumItemTax(Tail(items))

\* invoice_create (POST)
invoice_create(idb, req, now) ==
    LET made == InvoiceCreate(idb.invoices,
                    [NewInvoice(req.customer, 0, now) EXCEPT
                        !.payment_terms = req.payment_terms,
                        !.discount_amount = req.discount_amount],
                    now)
        items == ManualItems(req.items)
        sub == SumItemSubtotal(items)
        tax == SumItemTax(items)
        invoice == [made.invoices[made.id] EXCEPT
                       !.items = items,
                       !.subtotal = sub,
                       !.tax_amount = tax,
                       !.total_amount = sub + tax - req.discount_amount]
    IN  IF ~made.ok
        THEN [idb EXCEPT !.result = "error"]
        ELSE [invoices |-> InvoiceSave(made.invoices, made.id, invoice, now),
              payments |-> idb.payments,
              result |-> "created"]

\* sale.items.all() as InvoiceItem rows.
RECURSIVE ItemsFromSale(_)
ItemsFromSale(sale_items) ==
    IF sale_items = << >> THEN << >>
    ELSE <<InvoiceItemRow(Head(sale_items).product, Head(sale_items).quantity,
                          Head(sale_items).unit_price, Head(sale_items).discount,
                          Head(sale_items).tax_rate)>>
         \o ItemsFromSale(Tail(sale_items))

\* sale.payments.all(): the payments of create_sale, then the Payment rows
\* that invoice_record_payment has attached to the sale.
SalePayments(sale_rows, payment_rows, sale_id) ==
    [k \in 1..Len(sale_rows[sale_id].payments) |->
        [payment |-> <<"sale", sale_id, k>>,
         amount |-> sale_rows[sale_id].payments[k]]]
    \o [k \in 1..Len(SelectSeq(payment_rows, LAMBDA r : r.sale = sale_id)) |->
          [payment |-> <<"invoice", sale_id, k>>,
           amount |-> SelectSeq(payment_rows, LAMBDA r : r.sale = sale_id)[k].amount]]

\* Mutant of LinkPayments: only the first payment of the sale is linked.
LinkPayments_FirstOnly(invs, id, pays, now) ==
    IF pays = << >> THEN invs
    ELSE InvoicePaymentSave(invs, id,
             [payment |-> Head(pays).payment, amount |-> Head(pays).amount,
              notes |-> "", recorded_by |-> Cashier],
             now)

\* The loop of invoice_from_sale over the payments of the sale.
RECURSIVE LinkPayments(_, _, _, _)
LinkPayments(invs, id, pays, now) ==
    IF pays = << >> THEN invs
    ELSE LinkPayments(
             InvoicePaymentSave(invs, id,
                 [payment |-> Head(pays).payment, amount |-> Head(pays).amount,
                  notes |-> "", recorded_by |-> Cashier],
                 now),
             id, Tail(pays), now)

\* hasattr(sale, 'invoice')
HasInvoice(invs, sale_id) == \E i \in 1..Len(invs) : invs[i].sale = sale_id

\* Mutant of FromSaleBody: the payments of the sale are not linked.
FromSaleBody_NoLinks(idb, sale_rows, sale_id, now) ==
    LET sale == sale_rows[sale_id]
        made == InvoiceCreate(idb.invoices,
                    [NewInvoice(sale.customer, sale_id, now) EXCEPT
                        !.payment_terms = "net_30",
                        !.subtotal = sale.subtotal,
                        !.tax_amount = sale.tax,
                        !.discount_amount = sale.discount,
                        !.total_amount = sale.total,
                        !.amount_paid = sale.amount_paid],
                    now)
    IN  IF ~made.ok
        THEN [idb EXCEPT !.result = "error"]
        ELSE [invoices |-> [made.invoices EXCEPT
                               ![made.id].items = ItemsFromSale(sale.items)],
              payments |-> idb.payments,
              result |-> "created"]

\* The try block of invoice_from_sale: create, items, payment links.
FromSaleBody(idb, sale_rows, sale_id, now) ==
    LET sale == sale_rows[sale_id]
        made == InvoiceCreate(idb.invoices,
                    [NewInvoice(sale.customer, sale_id, now) EXCEPT
                        !.payment_terms = "net_30",
                        !.subtotal = sale.subtotal,
                        !.tax_amount = sale.tax,
                        !.discount_amount = sale.discount,
                        !.total_amount = sale.total,
                        !.amount_paid = sale.amount_paid],
                    now)
        with_items == [made.invoices EXCEPT
                          ![made.id].items = ItemsFromSale(sale.items)]
    IN  IF ~made.ok
        THEN [idb EXCEPT !.result = "error"]
        ELSE [invoices |-> LinkPayments(with_items, made.id,
                               SalePayments(sale_rows, idb.payments, sale_id),
                               now),
              payments |-> idb.payments,
              result |-> "created"]

\* invoice_from_sale
invoice_from_sale(idb, sale_rows, sale_id, now) ==
    IF HasInvoice(idb.invoices, sale_id)
    THEN [idb EXCEPT !.result = "exists"]
    ELSE FromSaleBody(idb, sale_rows, sale_id, now)

\* Mutant of invoice_record_payment: an amount above the balance is taken.
invoice_record_payment_NoCeiling(idb, id, amount, now) ==
    IF amount <= 0
    THEN [idb EXCEPT !.result = "not_positive"]
    ELSE [invoices |-> InvoicePaymentSave(idb.invoices, id,
                           [payment |-> <<"invoice", idb.invoices[id].sale,
                                          Len(idb.payments) + 1>>,
                            amount |-> amount, notes |-> "",
                            recorded_by |-> Cashier],
                           now),
          payments |-> Append(idb.payments,
                           [sale |-> idb.invoices[id].sale, amount |-> amount]),
          result |-> "recorded"]

\* invoice_record_payment (POST)
invoice_record_payment(idb, id, amount, now) ==
    IF amount <= 0
    THEN [idb EXCEPT !.result = "not_positive"]
    ELSE IF amount > balance_due(idb.invoices[id])
    THEN [idb EXCEPT !.result = "exceeds"]
    ELSE [invoices |-> InvoicePaymentSave(idb.invoices, id,
                           [payment |-> <<"invoice", idb.invoices[id].sale,
                                          Len(idb.payments) + 1>>,
                            amount |-> amount, notes |-> "",
                            recorded_by |-> Cashier],
                           now),
          payments |-> Append(idb.payments,
                           [sale |-> idb.invoices[id].sale, amount |-> amount]),
          result |-> "recorded"]

\* invoice_cancel (POST): payment_status is set and the invoice is saved;
\* save() assigns payment_status again before it writes.
invoice_cancel(idb, id, now) ==
    IF idb.invoices[id].amount_paid > 0
    THEN [idb EXCEPT !.result = "has_payments"]
    ELSE [invoices |-> InvoiceSave(idb.invoices, id,
                           [idb.invoices[id] EXCEPT
                               !.payment_status = "cancelled"],
                           now),
          payments |-> idb.payments,
          result |-> "cancelled"]

(* ------------------------------------------------------------------ *)
(* Invoice requests                                                     *)
(* ------------------------------------------------------------------ *)
\* The sales the invoice requests find: a wholesale sale of total 6 paid 1 + 2
\* and a vip sale of total 3 paid 3 + 3, as create_sale leaves them.
SeedRequests ==
    << [phone |-> "w", items |-> <<It("p1", 1), It("p2", 1)>>,
        payments |-> <<1, 2>>, discount |-> 0],
       [phone |-> "v", items |-> <<It("p1", 1)>>,
        payments |-> <<3, 3>>, discount |-> 0] >>

InitCustomers ==
    [ph \in Phones |->
        IF ph = "w"
        THEN [NewCustomer(OldName) EXCEPT !.customer_type = "wholesale"]
        ELSE IF ph = "v"
        THEN [NewCustomer(OldName) EXCEPT !.customer_type = "vip"]
        ELSE NoCustomer]

\* The database after the requests reqs, handled one after the other.
RECURSIVE Replay(_, _)
Replay(db, reqs) ==
    IF reqs = << >> THEN db
    ELSE Replay(create_sale(db, Head(reqs)).db, Tail(reqs))

SeedDB ==
    Replay([stock |-> InitStock, adjustments |-> << >>,
            customers |-> InitCustomers, sales |-> << >>],
           SeedRequests)

\* invoice_create requests: no line, or untaxed lines of total 3.
ManualLines == {<< >>, <<[product_id |-> "p2", quantity |-> 1, unit_price |-> 3]>>}

InvoiceRequests ==
    [customer : {"w"}, items : ManualLines, discount_amount : {0},
     payment_terms : {"net_30"}]

\* invoice_record_payment amounts: none, below, at and above a balance of 3.
PaymentAmounts == {0, 1, 3, 4}

\* The dates the clock is moved to: past the due date of the invoices
\* of day 0, and into the next year.
TickTo == {31, 365}

\* Invoices created by the requests of the model (and not found at Init).
Created == SelectSeq(invoices, LAMBDA v : v.created_by = Cashier)

IDB == [invoices |-> invoices, payments |-> payments, result |-> ""]

CommitInvoices(out) ==
    /\ invoices' = out.invoices
    /\ payments' = out.payments
    /\ UNCHANGED <<stock, adjustments, customers, sales, today, procs, call>>

\* POST invoice_create
InvoiceCreateReq ==
    /\ Len(Created) < MaxInvoices
    /\ \E req \in InvoiceRequests :
          CommitInvoices(invoice_create(IDB, req, today))

\* invoice_from_sale
InvoiceFromSale ==
    /\ Len(Created) < MaxInvoices
    /\ \E sale_id \in 1..Len(sales) :
          CommitInvoices(invoice_from_sale(IDB, sales, sale_id, today))

\* POST invoice_record_payment
RecordPayment ==
    /\ Len(payments) < MaxPayments
    /\ \E id \in 1..Len(invoices), amount \in PaymentAmounts :
          CommitInvoices(invoice_record_payment(IDB, id, amount, today))

\* POST invoice_cancel
InvoiceCancel ==
    \E id \in 1..Len(invoices) :
        CommitInvoices(invoice_cancel(IDB, id, today))

\* The clock moves on.
Tick ==
    /\ \E d \in TickTo : d > today /\ today' = d
    /\ UNCHANGED <<stock, adjustments, customers, sales, invoices, payments,
                   procs, call>>

InitInvoice ==
    /\ stock = SeedDB.stock
    /\ adjustments = SeedDB.adjustments
    /\ customers = SeedDB.customers
    /\ sales = SeedDB.sales
    /\ invoices = << >>
    /\ payments = << >>
    /\ today = 0
    /\ procs = << >>
    /\ call = << >>

NextInvoice ==
    InvoiceCreateReq \/ InvoiceFromSale \/ RecordPayment \/ InvoiceCancel \/ Tick

SpecInvoice == InitInvoice /\ [][NextInvoice]_vars

(* ------------------------------------------------------------------ *)
(* Invoice numbering over a long run of creations                       *)
(* ------------------------------------------------------------------ *)
\* The number of invoices created one after the other in the year of day 0
\* before the first request of the model: none, few, and up to the last
\* number of four digits.
SeedCounts == {0, 9, 9999}

\* The n-th of these invoices, as invoice_create leaves it on day 0.
SeedInvoice(n) ==
    [NewInvoice("w", 0, 0) EXCEPT
        !.invoice_number = [year |-> year_of(0), suffix |-> Format04d(n)],
        !.due_date = TermsDays("net_30"),
        !.created_by = "u0"]

InitNumber ==
    /\ stock = SeedDB.stock
    /\ adjustments = SeedDB.adjustments
    /\ customers = SeedDB.customers
    /\ sales = SeedDB.sales
    /\ \E n \in SeedCounts : invoices = [i \in 1..n |-> SeedInvoice(i)]
    /\ payments = << >>
    /\ today = 0
    /\ procs = << >>
    /\ call = << >>

NextNumber == InvoiceCreateReq \/ InvoiceFromSale \/ Tick

SpecNumber == InitNumber /\ [][NextNumber]_vars

(* ------------------------------------------------------------------ *)
(* Two invoice requests handled at the same time                        *)
(* ------------------------------------------------------------------ *)
\* Each request runs in its own worker; its database statements are the
\* steps, and the statements of the two requests interleave.  Neither view
\* opens a transaction or locks a row.
Workers == {1, 2}

\* A worker: the statement it is at, the view it runs, the sale of
\* invoice_from_sale, the lines of invoice_create, the Invoice instance it
\* holds, the id of the row it has inserted and the outcome of the request.
IdleWorker ==
    [pc |-> "idle", kind |-> "", sale |-> 0, lines |-> << >>,
     invoice |-> NewInvoice("", 0, 0), id |-> 0, result |-> ""]

UnchangedByWorker == <<stock, adjustments, customers, sales, today, call>>

\* A request arrives: invoice_from_sale for a sale, or a POST invoice_create.
RaceStart(w) ==
    /\ procs[w].pc = "idle"
    /\ \/ \E sale_id \in 1..Len(sales) :
             procs' = [procs EXCEPT ![w] =
                          [@ EXCEPT !.pc = "check", !.kind = "from_sale",
                                    !.sale = sale_id]]
       \/ \E req \in InvoiceRequests :
             procs' = [procs EXCEPT ![w] =
                          [@ EXCEPT !.pc = "number", !.kind = "create",
                                    !.lines = req.items,
                                    !.invoice =
                                       [NewInvoice(req.customer, 0, today) EXCEPT
                                           !.payment_terms = req.payment_terms,
                                           !.discount_amount = req.discount_amount]]]
    /\ UNCHANGED <<invoices, payments>>
    /\ UNCHANGED UnchangedByWorker

\* invoice_from_sale: hasattr(sale, 'invoice'), a read.
RaceCheck(w) ==
    /\ procs[w].pc = "check"
    /\ LET sale == sales[procs[w].sale]
       IN  procs' = [procs EXCEPT ![w] =
              IF HasInvoice(invoices, procs[w].sale)
              THEN [@ EXCEPT !.pc = "done", !.result = "exists"]
              ELSE [@ EXCEPT !.pc = "number",
                             !.invoice =
                                [NewInvoice(sale.customer, procs[w].sale, today)
                                 EXCEPT !.payment_terms = "net_30",
                                        !.subtotal = sale.subtotal,
                                        !.tax_amount = sale.tax,
                                        !.discount_amount = sale.discount,
                                        !.total_amount = sale.total,
                                        !.amount_paid = sale.amount_paid]]]
    /\ UNCHANGED <<invoices, payments>>
    /\ UNCHANGED UnchangedByWorker

\* Invoice.save before super().save(): the read of the last number.
RaceNumber(w) ==
    /\ procs[w].pc = "number"
    /\ procs' = [procs EXCEPT ![w] =
                    [@ EXCEPT !.pc = "insert",
                              !.invoice = InvoiceToSave(invoices, @, today)]]
    /\ UNCHANGED <<invoices, payments>>
    /\ UNCHANGED UnchangedByWorker

\* super().save(): the INSERT; IntegrityError ends the try block of the view.
RaceInsert(w) ==
    /\ procs[w].pc = "insert"
    /\ IF UniqueViolation(invoices, procs[w].invoice)
       THEN /\ procs' = [procs EXCEPT ![w] =
                            [@ EXCEPT !.pc = "done", !.result = "error"]]
            /\ invoices' = invoices
       ELSE /\ procs' = [procs EXCEPT ![w] =
                            [@ EXCEPT !.pc = "rest", !.id = Len(invoices) + 1]]
            /\ invoices' = Append(invoices, procs[w].invoice)
    /\ UNCHANGED payments
    /\ UNCHANGED UnchangedByWorker

\* The rest of the view: the items, and the payment links of
\* invoice_from_sale or the totals and invoice.save() of invoice_create.
RaceRest(w) ==
    /\ procs[w].pc = "rest"
    /\ LET id == procs[w].id
           manual == ManualItems(procs[w].lines)
           sub == SumItemSubtotal(manual)
           tax == SumItemTax(manual)
       IN  invoices' =
              IF procs[w].kind = "from_sale"
              THEN LinkPayments(
                      [invoices EXCEPT ![id].items =
                          ItemsFromSale(sales[procs[w].sale].items)],
                      id, SalePayments(sales, payments, procs[w].sale), today)
              ELSE InvoiceSave(invoices, id,
                      [invoices[id] EXCEPT
                          !.items = manual, !.subtotal = sub,
                          !.tax_amount = tax,
                          !.total_amount = sub + tax - invoices[id].discount_amount],
                      today)
    /\ procs' = [procs EXCEPT ![w] =
                    [@ EXCEPT !.pc = "done", !.result = "created"]]
    /\ UNCHANGED payments
    /\ UNCHANGED UnchangedByWorker

InitRace ==
    /\ stock = SeedDB.stock
    /\ adjustments = SeedDB.adjustments
    /\ customers = SeedDB.customers
    /\ sales = SeedDB.sales
    /\ invoices = << >>
    /\ payments = << >>
    /\ today = 0
    /\ procs = [w \in Workers |-> IdleWorker]
    /\ call = << >>

NextRace ==
    \E w \in Workers :
        RaceStart(w) \/ RaceCheck(w) \/ RaceNumber(w) \/ RaceInsert(w) \/ RaceRest(w)

SpecRace == InitRace /\ [][NextRace]_vars

(* ------------------------------------------------------------------ *)
(* Product.get_price_for_customer on drawn inputs                       *)
(* ------------------------------------------------------------------ *)
\* Products by their prices: wholesale_price 0 is a price that is not set;
\* the prices and the percentage 50 keep every result in whole minor units.
PriceProducts ==
    [sell_price : {4, 6}, wholesale_price : {0, 2},
     minimum_wholesale_quantity : {1, 2}]

\* No customer, and customers of each type with and without a discount.
PriceCustomers ==
    {NoCustomer} \cup
    {[NewCustomer(OldName) EXCEPT !.customer_type = t,
                                  !.discount_percentage = d] :
        t \in {"retail", "wholesale", "vip"}, d \in {0, 50}}

PriceQuantities == {1, 2, 3}

\* product.get_price_for_customer(customer, quantity)
PriceCall ==
    /\ \E prod \in PriceProducts, customer \in PriceCustomers,
          quantity \in PriceQuantities :
          call' = [product |-> prod, customer |-> customer,
                   quantity |-> quantity,
                   price |-> get_price_for_customer(prod, customer, quantity),
                   price_type |-> get_price_type(prod, customer, quantity)]
    /\ UNCHANGED <<stock, adjustments, customers, sales, invoices, payments,
                   today, procs>>

NextPrice == PriceCall

SpecPrice == Init /\ [][NextPrice]_vars

(* ------------------------------------------------------------------ *)
(* Vocabulary of the properties                                         *)
(* ------------------------------------------------------------------ *)
DBNext == [stock |-> stock', adjustments |-> adjustments',
           customers |-> customers', sales |-> sales']

\* Quantity of product p a sale moves in or out of stock.
TrackedQty(items, p) ==
    IF ProductTable[p].track_stock THEN LineQty(items, p) ELSE 0

\* Number of lines of a sale whose product is stock-tracked.
TrackedLines(items) ==
    Len(SelectSeq(items, LAMBDA i : ProductTable[i.product].track_stock))

\* The step completes sale id (complete_sale inside create_sale).
CompletesIn(id) ==
    /\ id <= Len(sales')
    /\ sales'[id].status = "completed"
    /\ (id <= Len(sales) => sales[id].status = "pending")

\* The step voids sale id, which was completed.
VoidsCompleted(id) ==
    /\ id <= Len(sales)
    /\ sales[id].status = "completed"
    /\ sales'[id].status = "voided"

(* ------------------------------------------------------------------ *)
(* Properties                                                           *)
(* ------------------------------------------------------------------ *)

\* C1: in every reachable state a product with track_stock = true has
\* stock >= 0.
C1_StockNeverNegative ==
    \A p \in Products : ProductTable[p].track_stock => stock[p] >= 0

\* C2: completing a sale lowers every product's stock by exactly the sum of
\* that product's line quantities when the product is tracked (and leaves it
\* alone otherwise), and voiding a completed sale raises it by the same
\* amount; so complete followed by void gives back the stock before.
C2_CompleteThenVoidRestores ==
    [][\A id \in 1..Len(sales') :
         /\ CompletesIn(id) =>
               \A p \in Products :
                  stock'[p] = stock[p] - TrackedQty(sales'[id].items, p)
         /\ VoidsCompleted(id) =>
               \A p \in Products :
                  stock'[p] = stock[p] + TrackedQty(sales'[id].items, p)]_vars

\* A sale of two tracked lines was completed and then voided, and the stock
\* is back at its first value.
C2_Witness ==
    \E id \in 1..Len(sales) :
        /\ sales[id].status = "voided"
        /\ sales[id].completed_at # 0
        /\ TrackedLines(sales[id].items) = 2
        /\ Len(adjustments) = 4
        /\ stock = InitStock

\* The sale row the step has added.
NewRow == sales'[Len(sales')]

\* The step is the handling of the create_sale request req with outcome out.
Handles(req, out) ==
    /\ Len(sales') = Len(sales) + 1
    /\ NewRow.customer = req.phone
    /\ DBNext = out.db

\* C3: for a wholesale customer, a sale total T and summed payments P,
\* create_sale rejects when P < T/2; when T/2 <= P < T it accepts, marks the
\* sale partial, completes it and adds exactly T - P to the customer's
\* balance; when P >= T it accepts and leaves the balance as it was.
C3_WholesaleSettlement ==
    [][\A req \in Requests :
         LET out == create_sale(DB, req)
             T == NewRow.total
             P == SumSeq(req.payments)
             before == customers[req.phone].current_balance
             after == customers'[req.phone].current_balance
         IN  (/\ Handles(req, out)
              /\ customers'[req.phone].customer_type = "wholesale"
              /\ out.result # "cannot_sell")
             =>
             /\ 2 * P < T =>
                   /\ out.result = "wholesale_minimum"
                   /\ NewRow.status = "pending"
             /\ (2 * P >= T /\ P < T) =>
                   /\ out.result = "created"
                   /\ NewRow.payment_status = "partial"
                   /\ NewRow.status = "completed"
                   /\ after = before + (T - P)
             /\ P >= T =>
                   /\ out.result = "created"
                   /\ NewRow.status = "completed"
                   /\ after = before]_vars

\* A wholesale sale paid exactly half was accepted as partial and the other
\* half is on the customer's balance.
C3_Witness ==
    \E id \in 1..Len(sales) :
        /\ customers[sales[id].customer].customer_type = "wholesale"
        /\ sales[id].status = "completed"
        /\ sales[id].payment_status = "partial"
        /\ 2 * SumSeq(sales[id].payments) = sales[id].total
        /\ customers[sales[id].customer].current_balance
              = sales[id].total - SumSeq(sales[id].payments)

\* C4: for a customer that is not wholesale, create_sale rejects with the
\* insufficient-payment error whenever the summed payments are below the
\* total, and accepts and completes the sale whenever they reach it.
C4_RetailSettlement ==
    [][\A req \in Requests :
         LET out == create_sale(DB, req)
             T == NewRow.total
             P == SumSeq(req.payments)
         IN  (/\ Handles(req, out)
              /\ customers'[req.phone].customer_type # "wholesale"
              /\ out.result # "cannot_sell")
             =>
             /\ P < T =>
                   /\ out.result = "insufficient_payment"
                   /\ NewRow.status = "pending"
             /\ P >= T =>
                   /\ out.result = "created"
                   /\ NewRow.status = "completed"]_vars

\* A vip or retail sale paid to the cent was completed.
C4_Witness ==
    \E id \in 1..Len(sales) :
        /\ customers[sales[id].customer].customer_type \in {"retail", "vip"}
        /\ sales[id].status = "completed"
        /\ SumSeq(sales[id].payments) = sales[id].total
        /\ sales[id].total > 0

\* C5: when create_sale rejects on the settlement policy, no stock has
\* changed, no InventoryAdjustment row was added, the sale's payment_status
\* is still its initial value and the customer's balance is unchanged.
C5_PolicyRejectionFrame ==
    [][\A req \in Requests :
         LET out == create_sale(DB, req)
         IN  (/\ Handles(req, out)
              /\ out.result \in {"wholesale_minimum", "insufficient_payment"})
             =>
             /\ stock' = stock
             /\ adjustments' = adjustments
             /\ NewRow.payment_status
                   = NewSale(req.phone, req.discount).payment_status
             /\ customers'[req.phone].current_balance
                   = customers[req.phone].current_balance]_vars

\* A request was rejected on the policy: its sale is pending with payments
\* below the total, and stock and audit rows are untouched.
C5_Witness ==
    \E id \in 1..Len(sales) :
        /\ sales[id].status = "pending"
        /\ sales[id].payments # << >>
        /\ SumSeq(sales[id].payments) < sales[id].total
        /\ sales[id].payment_status = "pending"
        /\ adjustments = << >>
        /\ stock = InitStock
        /\ customers[sales[id].customer].current_balance = 0

\* C6: a create_sale request rejected for a business rule (an unsellable
\* product, insufficient payment) leaves the Sale, SaleItem, Payment and
\* Customer records exactly as they were.
C6_RejectionLeavesNoRecords ==
    [][\A req \in Requests :
         LET out == create_sale(DB, req)
         IN  (Handles(req, out) /\ out.result # "created")
             => (sales' = sales /\ customers' = customers)]_vars

\* Number of audit rows written with the given reason.
RowsWith(reason) == Len(SelectSeq(adjustments, LAMBDA a : a.reason = reason))

\* Tracked lines of the sales of ss, summed.
RECURSIVE LinesOf(_)
LinesOf(ss) ==
    IF ss = << >> THEN 0
    ELSE TrackedLines(Head(ss).items) + LinesOf(Tail(ss))

IsVoided(sale) == sale.status = "voided"

WasCompleted(sale) == sale.completed_at # 0

\* C7: void on a sale that is already voided answers with the invalid-state
\* error and changes nothing: stock, audit rows and the voided_at, voided_by
\* and void_reason of the first void stay; so the stock of a sale is
\* restored at most once, however often it is voided.
C7_SecondVoidChangesNothing ==
    /\ \A id \in 1..Len(sales) :
          sales[id].status = "voided" =>
             \A inp \in VoidInputs :
                LET out == void(DB, id, inp)
                IN  /\ out.result = "invalid_state"
                    /\ out.db.stock = stock
                    /\ out.db.adjustments = adjustments
                    /\ out.db.sales[id].voided_at = sales[id].voided_at
                    /\ out.db.sales[id].voided_by = sales[id].voided_by
                    /\ out.db.sales[id].void_reason = sales[id].void_reason
                    /\ out.db = DB
    /\ RowsWith("return") = LinesOf(SelectSeq(sales, IsVoided))

\* A sale with two stock-tracked lines was voided by u1 and a void by u2 is
\* refused on it; the two return rows of the first void are the only ones.
C7_Witness ==
    \E id \in 1..Len(sales) :
        /\ sales[id].status = "voided"
        /\ sales[id].voided_by = "u1"
        /\ TrackedLines(sales[id].items) = 2
        /\ RowsWith("return") = 2
        /\ void(DB, id, [user |-> "u2", reason |-> "r2", now |-> 2]).result
              = "invalid_state"

\* The status changes a sale may go through.
StatusMoves ==
    {<<"pending", "completed">>, <<"pending", "voided">>,
     <<"completed", "voided">>}

RowsOf(p) == SelectSeq(adjustments, LAMBDA a : a.product = p)

\* C10: adjust_stock(product, delta) appends exactly one InventoryAdjustment
\* row, for that product, with quantity_change = delta, old_stock = the
\* stock before the call and new_stock = the stock after it; so on every
\* row new_stock - old_stock = quantity_change, the rows of a product lead
\* from its first stock to its present one, and right after the call the
\* product's stock is the new_stock of the row.
C10_AdjustStockAudit ==
    /\ \A p \in Products, q \in Deltas :
          LET r == adjust_stock(DB, p, q, "correction", Cashier)
              row == r.adjustments[Len(r.adjustments)]
          IN  /\ Len(r.adjustments) = Len(adjustments) + 1
              /\ SubSeq(r.adjustments, 1, Len(adjustments)) = adjustments
              /\ row.product = p
              /\ row.quantity_change = q
              /\ row.old_stock = stock[p]
              /\ row.new_stock = r.stock[p]
              /\ row.new_stock - row.old_stock = q
              /\ \A o \in Products \ {p} : r.stock[o] = stock[o]
    /\ \A i \in 1..Len(adjustments) :
          adjustments[i].new_stock - adjustments[i].old_stock
             = adjustments[i].quantity_change
    /\ \A p \in Products :
          LET rows == RowsOf(p)
          IN  /\ rows = << >> => stock[p] = InitStock[p]
              /\ rows # << >> =>
                    /\ rows[1].old_stock = InitStock[p]
                    /\ rows[Len(rows)].new_stock = stock[p]
                    /\ \A k \in 1..(Len(rows) - 1) :
                          rows[k + 1].old_stock = rows[k].new_stock

\* The stock of p1 was corrected by -1 and a sale took one more: two rows
\* that lead from the first stock to the present one.
C10_Witness ==
    LET rows == RowsOf("p1")
    IN  /\ Len(rows) = 2
        /\ \E i \in 1..2 : /\ rows[i].reason = "correction"
                             /\ rows[i].quantity_change = -1
        /\ \E i \in 1..2 : rows[i].reason = "sale"
        /\ rows[1].old_stock = InitStock["p1"]
        /\ rows[2].new_stock = stock["p1"]
        /\ stock["p1"] # InitStock["p1"]

\* Sum of the quantity changes of a sequence of audit rows.
RECURSIVE SumChange(_)
SumChange(rows) ==
    IF rows = << >> THEN 0
    ELSE Head(rows).quantity_change + SumChange(Tail(rows))

\* C9: complete_sale is all-or-nothing: when the stock deduction of a line
\* fails, every product's stock, the InventoryAdjustment rows and the
\* pending status of the sale are as before the call; in no reachable state
\* is stock of a sale deducted, or moved without its audit row, while the
\* sale has not been completed.
C9_CompleteAllOrNothing ==
    /\ \A id \in 1..Len(sales), fault \in Faults :
          (/\ sales[id].status = "pending"
           /\ fault.line <= TrackedLines(sales[id].items))
          => LET r == complete_sale_fault(DB, sales[id], fault)
             IN  /\ r.raised
                 /\ r.db.stock = stock
                 /\ r.db.adjustments = adjustments
                 /\ r.sale.status = "pending"
                 /\ r.db = DB
    /\ RowsWith("sale") = LinesOf(SelectSeq(sales, WasCompleted))
    /\ \A p \in Products : stock[p] = InitStock[p] + SumChange(RowsOf(p))
    /\ \A id \in 1..Len(sales) :
          sales[id].status = "pending" => sales[id].completed_at = 0

\* A pending sale of two stock-tracked lines: when the deduction of its
\* second line fails, the first line has been deducted inside the block
\* and the database is back at the image before the call.
C9_Witness ==
    \E id \in 1..Len(sales) :
        LET fault == [line |-> 2, at |-> "save"]
        IN  /\ sales[id].status = "pending"
            /\ TrackedLines(sales[id].items) = 2
            /\ complete_sale_body(DB, sales[id], fault).raised
            /\ complete_sale_body(DB, sales[id], fault).db.stock # stock
            /\ complete_sale_fault(DB, sales[id], fault).db = DB

\* C11: adjust_stock on a stock-tracked product fails whenever stock + delta
\* would be negative, leaving the stock as it was and writing no
\* InventoryAdjustment row, from the stock-adjustment request and from
\* complete_sale alike: no call moves a tracked stock below zero and no row
\* records a negative new_stock.
C11_AdjustStockRejectsNegative ==
    /\ \A p \in Products, q \in Deltas :
          (ProductTable[p].track_stock /\ stock[p] + q < 0) =>
             LET r == adjust_stock(DB, p, q, "correction", Cashier)
             IN  /\ r.stock = stock
                 /\ r.adjustments = adjustments
    /\ \A i \in 1..Len(adjustments) :
          ProductTable[adjustments[i].product].track_stock =>
             adjustments[i].new_stock >= 0

\* The amounts tried on an invoice: the request amounts, a negative one, and
\* the amounts at and just above its balance.
AmountsTried(invoice) ==
    PaymentAmounts \cup {-1, balance_due(invoice), balance_due(invoice) + 1}

\* C12: invoice_record_payment rejects every amount <= 0 and every amount
\* above balance_due = total_amount - amount_paid and then leaves the
\* invoice and the Payment and InvoicePayment rows as they were; it accepts
\* every amount with 0 < amount <= balance_due, adding one Payment and one
\* InvoicePayment of that amount; an accepted amount equal to balance_due
\* leaves the invoice paid with balance_due = 0.
C12_RecordPaymentBounds ==
    \A id \in 1..Len(invoices) : \A amount \in AmountsTried(invoices[id]) :
        LET out == invoice_record_payment(IDB, id, amount, today)
            due == balance_due(invoices[id])
        IN  /\ (amount <= 0 \/ amount > due) =>
                  /\ out.result \in {"not_positive", "exceeds"}
                  /\ out.invoices = invoices
                  /\ out.payments = payments
            /\ (0 < amount /\ amount <= due) =>
                  /\ out.result = "recorded"
                  /\ Len(out.payments) = Len(payments) + 1
                  /\ out.payments[Len(out.payments)].amount = amount
                  /\ Len(out.invoices[id].invoice_payments)
                        = Len(invoices[id].invoice_payments) + 1
                  /\ out.invoices[id].amount_paid
                        = invoices[id].amount_paid + amount
                  /\ \A o \in 1..Len(invoices) :
                        o # id => out.invoices[o] = invoices[o]
            /\ (0 < amount /\ amount = due) =>
                  /\ out.invoices[id].payment_status = "paid"
                  /\ balance_due(out.invoices[id]) = 0

\* An invoice of total 6 that came with 3 paid took a payment of exactly its
\* balance of 3: it is paid and nothing is due.
C12_Witness ==
    \E id \in 1..Len(invoices) :
        /\ payments # << >>
        /\ payments[Len(payments)].amount = 3
        /\ invoices[id].total_amount = 6
        /\ Len(invoices[id].invoice_payments) = 3
        /\ invoices[id].payment_status = "paid"
        /\ balance_due(invoices[id]) = 0

\* C13: after any sequence of invoice operations (manual creation, from_sale,
\* record_payment, cancel) the amount_paid of every invoice is the sum of
\* the amounts of the InvoicePayment rows linked to it.
C13_AmountPaidIsSum ==
    \A id \in 1..Len(invoices) :
        invoices[id].amount_paid = SumAmount(invoices[id].invoice_payments)

\* An invoice made from a sale with two payments took a third payment of 1
\* and holds the sum 4 of its three links.
C13_Witness ==
    \E id \in 1..Len(invoices) :
        /\ invoices[id].sale # 0
        /\ Len(invoices[id].invoice_payments) = 3
        /\ invoices[id].invoice_payments[3].amount = 1
        /\ invoices[id].amount_paid = 4
        /\ invoices[id].payment_status = "partial"

\* C14: invoice_cancel on an invoice with amount_paid = 0 leaves it saved
\* with payment_status = cancelled, and no later operation moves the status
\* away from cancelled; on an invoice with amount_paid > 0 it is rejected
\* and the status stays.
C14_CancelIsTerminal ==
    /\ [](\A id \in 1..Len(invoices) :
            LET out == invoice_cancel(IDB, id, today)
            IN  /\ invoices[id].amount_paid = 0 =>
                      out.invoices[id].payment_status = "cancelled"
                /\ invoices[id].amount_paid > 0 =>
                      /\ out.result = "has_payments"
                      /\ out.invoices = invoices)
    /\ [][\A id \in 1..Len(invoices) :
             invoices[id].payment_status = "cancelled" =>
                invoices'[id].payment_status = "cancelled"]_vars

\* The payment_status of the claim for the row that is saved.
ClaimedStatus(invoice, now) ==
    LET first == IF invoice.amount_paid <= 0 THEN "unpaid"
                 ELSE IF invoice.amount_paid >= invoice.total_amount THEN "paid"
                 ELSE "partial"
    IN  IF first \notin {"paid", "cancelled"} /\ invoice.due_date < now
        THEN "overdue" ELSE first

\* C15: on every save of an invoice payment_status becomes unpaid if
\* amount_paid <= 0, else paid if amount_paid >= total_amount, else
\* partial, and then overdue exactly when that is neither paid nor
\* cancelled and due_date is before today; so a paid invoice is never
\* saved as overdue, and an invoice that is saved as cancelled past its due
\* date is not turned into overdue.
C15_StatusRecompute ==
    \A id \in 1..Len(invoices) :
        LET saved == InvoiceToSave(invoices, invoices[id], today)
            cancelled == InvoiceToSave(invoices,
                             [invoices[id] EXCEPT !.payment_status = "cancelled"],
                             today)
        IN  /\ saved.payment_status = ClaimedStatus(invoices[id], today)
            /\ invoices[id].payment_status \in
                  {"unpaid", "partial", "paid", "overdue", "cancelled"}
            /\ (invoices[id].amount_paid > 0
                 /\ invoices[id].amount_paid >= invoices[id].total_amount)
                => saved.payment_status = "paid"
            /\ invoices[id].due_date < today =>
                  cancelled.payment_status # "overdue"

\* C19: after a successful invoice_from_sale the invoice carries the
\* subtotal, tax, discount and total of the sale, one InvoiceItem per
\* SaleItem with its product, quantity, unit_price and discount, and one
\* InvoicePayment per Payment of the sale with its amount, so that
\* amount_paid is the sum of the sale's payment amounts.
C19_FromSaleCopies ==
    \A sale_id \in 1..Len(sales) :
        LET out == invoice_from_sale(IDB, sales, sale_id, today)
            inv == out.invoices[Len(out.invoices)]
            sale == sales[sale_id]
        IN  out.result = "created" =>
              /\ Len(out.invoices) = Len(invoices) + 1
              /\ inv.sale = sale_id
              /\ inv.subtotal = sale.subtotal
              /\ inv.tax_amount = sale.tax
              /\ inv.discount_amount = sale.discount
              /\ inv.total_amount = sale.total
              /\ Len(inv.items) = Len(sale.items)
              /\ \A k \in 1..Len(sale.items) :
                    /\ inv.items[k].product = sale.items[k].product
                    /\ inv.items[k].quantity = sale.items[k].quantity
                    /\ inv.items[k].unit_price = sale.items[k].unit_price
                    /\ inv.items[k].discount = sale.items[k].discount
              /\ Len(inv.invoice_payments) = Len(sale.payments)
              /\ \A k \in 1..Len(sale.payments) :
                    inv.invoice_payments[k].amount = sale.payments[k]
              /\ inv.amount_paid = SumSeq(sale.payments)

\* The invoice of the sale of two lines paid 1 + 2: two items, two links,
\* 3 paid of 6, while the other sale can still be invoiced.
C19_Witness ==
    \E id \in 1..Len(invoices) :
        /\ invoices[id].sale = 1
        /\ Len(invoices[id].items) = 2
        /\ Len(invoices[id].invoice_payments) = 2
        /\ invoices[id].amount_paid = 3
        /\ invoices[id].total_amount = sales[1].total
        /\ invoice_from_sale(IDB, sales, 2, today).result = "created"

\* The invoices numbered in the given year, in the order of their creation.
InvoicesOfYear(year) ==
    SelectSeq(invoices, LAMBDA v : v.invoice_number.year = year)

\* C16: under sequential creation within one calendar year the n-th invoice
\* created gets the numeric suffix n: every new number is the numerically
\* largest suffix of the year + 1, so the suffixes rise by one without gap
\* or repeat, also beyond INV-<year>-9999, and the next creation succeeds.
C16_SequentialNumbers ==
    LET mine == InvoicesOfYear(year_of(today))
        next == generate_invoice_number(invoices, today)
    IN  /\ \A k \in 1..Len(mine) : IntOf(mine[k].invoice_number.suffix) = k
        /\ IntOf(next.suffix) = Len(mine) + 1
        /\ \A req \in InvoiceRequests :
              invoice_create(IDB, req, today).result = "created"

\* The worker has computed the number of the invoice it creates.
HoldsNumber(w) ==
    /\ procs[w].kind # ""
    /\ procs[w].invoice.invoice_number # NoNumber

\* C17: two invoice creations of one year that run at the same time never
\* obtain the same invoice number: under every interleaving of the read of
\* the last number and the insert, both creations succeed and the two
\* invoices are stored with different numbers.
C17_ConcurrentNumbersDistinct ==
    /\ \A v \in Workers, w \in Workers :
          (v # w /\ HoldsNumber(v) /\ HoldsNumber(w)) =>
             procs[v].invoice.invoice_number # procs[w].invoice.invoice_number
    /\ \A w \in Workers :
          (procs[w].pc = "done" /\ procs[w].kind = "create") =>
             procs[w].result = "created"
    /\ \A i \in 1..Len(invoices), j \in 1..Len(invoices) :
          i # j => invoices[i].invoice_number # invoices[j].invoice_number

\* The invoices linked to the sale.
InvoicesOfSale(sale_id) == {i \in 1..Len(invoices) : invoices[i].sale = sale_id}

\* C18: at most one invoice is linked to any sale: invoice_from_sale on a
\* sale that has an invoice creates no invoice, no InvoiceItem and no
\* InvoicePayment, also when two invoice_from_sale requests for the sale
\* are interleaved.
C18_OneInvoicePerSale ==
    /\ [](/\ \A sale_id \in 1..Len(sales) :
              /\ Cardinality(InvoicesOfSale(sale_id)) <= 1
              /\ HasInvoice(invoices, sale_id) =>
                    LET out == invoice_from_sale(IDB, sales, sale_id, today)
                    IN  /\ out.result = "exists"
                        /\ out.invoices = invoices
                        /\ out.payments = payments
           /\ \A w \in Workers :
                 (procs[w].pc = "done" /\ procs[w].result # "created") =>
                    procs[w].id = 0)
    /\ [][\A w \in Workers :
             (procs'[w].pc = "done" /\ procs[w].pc # "done"
              /\ procs'[w].result # "created")
             => (invoices' = invoices /\ payments' = payments)]_vars

\* Two invoice_from_sale requests for sale 1 both found no invoice; one has
\* created the invoice with its two items and two links, the other ended
\* on the error of its INSERT and left nothing.
C18_Witness ==
    \E v \in Workers, w \in Workers :
        /\ v # w
        /\ procs[v].kind = "from_sale" /\ procs[v].sale = 1
        /\ procs[w].kind = "from_sale" /\ procs[w].sale = 1
        /\ procs[v].pc = "done" /\ procs[v].result = "created"
        /\ procs[w].pc = "done" /\ procs[w].result = "error"
        /\ Len(invoices) = 1
        /\ InvoicesOfSale(1) = {1}
        /\ Len(invoices[1].items) = 2
        /\ Len(invoices[1].invoice_payments) = 2

\* The tier the call is entitled to.
WholesaleTier(c) ==
    /\ c.customer.exists
    /\ c.customer.customer_type = "wholesale"
    /\ c.product.wholesale_price > 0
    /\ c.quantity >= c.product.minimum_wholesale_quantity

\* C20: get_price_for_customer returns wholesale_price exactly when the
\* customer is a wholesale customer, wholesale_price is set and > 0 and
\* quantity >= minimum_wholesale_quantity, and sell_price otherwise; a
\* discount_percentage > 0 of the customer is then applied to that tier
\* price as price * (1 - discount_percentage / 100); with no customer the
\* result is sell_price with the label retail.
C20_TierThenDiscount ==
    call # << >> =>
       LET tier == IF WholesaleTier(call) THEN call.product.wholesale_price
                   ELSE call.product.sell_price
           label == IF WholesaleTier(call) THEN "wholesale" ELSE "retail"
           pct == call.customer.discount_percentage
       IN  /\ (call.customer.exists /\ pct > 0) =>
                 /\ 100 * call.price = tier * (100 - pct)
                 /\ call.price_type = <<label, pct>>
           /\ (call.customer.exists /\ pct <= 0) =>
                 /\ call.price = tier
                 /\ call.price_type = <<label>>
           /\ ~call.customer.exists =>
                 /\ call.price = call.product.sell_price
                 /\ call.price_type = <<"retail">>

\* A wholesale customer with a discount of 50% bought at the minimum
\* quantity: half of the wholesale price 2, not half of the sell price.
C20_Witness ==
    /\ call # << >>
    /\ WholesaleTier(call)
    /\ call.customer.discount_percentage = 50
    /\ call.quantity = call.product.minimum_wholesale_quantity
    /\ call.product.wholesale_price = 2
    /\ call.price = 1
    /\ call.price_type = <<"wholesale", 50>>

(* ------------------------------------------------------------------ *)
(* catalog.models.Coupon.calculate_discount on drawn inputs             *)
(* ------------------------------------------------------------------ *)
Min(a, b) == IF a <= b THEN a ELSE b

\* Coupon.calculate_discount.  max_discount is a nullable DecimalField:
\* has_max tells whether it is set; `if self.max_discount:` is the truth
\* value of the Decimal, false for None and for 0.
calculate_discount(coupon, cart_total) ==
    LET discount ==
            IF coupon.discount_type = "percentage"
            THEN LET pct == (cart_total * coupon.discount_value) \div 100
                 IN  IF coupon.has_max /\ coupon.max_discount # 0
                     THEN Min(pct, coupon.max_discount)
                     ELSE pct
            ELSE coupon.discount_value
    IN  Min(discount, cart_total)

\* Coupons: discount_value is a percentage or an amount in minor units and
\* passes MinValueValidator(0); max_discount is not set, 0, or a cap below,
\* between and above the percentages of the cart totals.
Coupons ==
    [discount_type : {"percentage", "fixed"},
     discount_value : {0, 10, 50, 150},
     has_max : {TRUE},
     max_discount : {0, 5, 20, 400}]
    \cup
    [discount_type : {"percentage", "fixed"},
     discount_value : {0, 10, 50, 150},
     has_max : {FALSE},
     max_discount : {0}]

\* Cart totals in minor units: multiples of 100, so every percentage is whole.
CartTotals == {0, 100, 200, 300}

\* coupon.calculate_discount(cart_total)
CouponCall ==
    /\ \E coupon \in Coupons, cart_total \in CartTotals :
          call' = [coupon |-> coupon, cart_total |-> cart_total,
                   discount |-> calculate_discount(coupon, cart_total)]
    /\ UNCHANGED <<stock, adjustments, customers, sales, invoices, payments,
                   today, procs>>

NextCoupon == CouponCall

SpecCoupon == Init /\ [][NextCoupon]_vars

\* C21: for every coupon and every cart_total >= 0, calculate_discount
\* returns d with 0 <= d <= cart_total; for a percentage coupon
\* d = min(cart_total * discount_value / 100, max_discount, cart_total)
\* whenever max_discount is set, max_discount = 0 included; for a fixed
\* coupon d = min(discount_value, cart_total).
C21_CouponDiscount ==
    call # << >> =>
       LET c == call.coupon
           pct == (call.cart_total * c.discount_value) \div 100
       IN  /\ 0 <= call.discount
           /\ call.discount <= call.cart_total
           /\ (c.discount_type = "percentage" /\ c.has_max) =>
                 call.discount = Min(Min(pct, c.max_discount), call.cart_total)
           /\ c.discount_type = "fixed" =>
                 call.discount = Min(c.discount_value, call.cart_total)

(* ------------------------------------------------------------------ *)
(* create_sale with item discounts and a sale discount                  *)
(* ------------------------------------------------------------------ *)
\* items is a ListField of DictField and discount a DecimalField with no
\* min_value (src/pos/serializers.py lines 40-42): the request decides the
\* discounts, and Model.save runs no validator.  The discounts are even, so
\* the tax of a line of p1 (rate 0.5) stays a whole number of minor units.
ItemDiscounts == {0, 2, 4}

DiscountedItemLists ==
    { <<[It(p, 1) EXCEPT !.discount = d]>> :
          p \in {"p1", "p2"}, d \in ItemDiscounts }
    \cup
    { <<[It("p1", 1) EXCEPT !.discount = d], It("p2", 1)>> :
          d \in ItemDiscounts }

DiscountedSaleDiscounts == {0, 2, 10}

DiscountedRequests ==
    [phone : Phones, items : DiscountedItemLists, payments : PaymentLists,
     discount : DiscountedSaleDiscounts]

\* POST create_sale with discounts in the request
CreateSaleDiscounted ==
    /\ Len(sales) < MaxSales
    /\ \E req \in DiscountedRequests : Commit(create_sale(DB, req))

NextTotals == CreateSaleDiscounted \/ Void

SpecTotals == Init /\ [][NextTotals]_vars

\* C22: for every sale handled by create_sale, after calculate_totals the
\* persisted subtotal, tax and total are all >= 0 and every persisted
\* line_total is >= 0, for every combination of item discounts and sale
\* discount the request supplies (a sale discount above subtotal + tax and
\* an item discount above unit_price * quantity included).
C22_TotalsNonNegative ==
    \A id \in 1..Len(sales) :
        /\ sales[id].subtotal >= 0
        /\ sales[id].tax >= 0
        /\ sales[id].total >= 0
        /\ \A i \in 1..Len(sales[id].items) :
              sales[id].items[i].line_total >= 0

(* ------------------------------------------------------------------ *)
(* Stock over the life of a sale                                        *)
(* ------------------------------------------------------------------ *)
\* Tracked quantity of product p over the sales of ss, summed.
RECURSIVE QtyOf(_, _)
QtyOf(ss, p) ==
    IF ss = << >> THEN 0
    ELSE TrackedQty(Head(ss).items, p) + QtyOf(Tail(ss), p)

IsCompleted(sale) == sale.status = "completed"

\* A sale that was voided while it was still pending.
VoidedPending(sale) == sale.status = "voided" /\ sale.completed_at = 0

\* The audit rows of product p written by the adjust_stock API.
ManualRowsOf(p) ==
    SelectSeq(adjustments, LAMBDA a : a.product = p /\ a.reason = "correction")

\* C23: void_sale on a sale that is still pending (left pending by a
\* rejected create_sale, for instance) restores stock exactly as for a
\* completed sale: the stock of each tracked product rises by its line
\* quantity and one 'return' InventoryAdjustment row is written per tracked
\* item; as a pending sale never lowered the stock, the stock ends above
\* its value before the sale was created.
C23_VoidPendingAddsStock ==
    /\ \A id \in 1..Len(sales) :
          sales[id].status = "pending" =>
             \A inp \in VoidInputs :
                LET out == void(DB, id, inp)
                    same == void([DB EXCEPT !.sales[id].status = "completed"],
                                 id, inp)
                    n == Len(adjustments)
                IN  /\ out.result = "voided"
                    /\ out.db.sales[id].status = "voided"
                    /\ \A p \in Products :
                          out.db.stock[p]
                             = stock[p] + TrackedQty(sales[id].items, p)
                    /\ Len(out.db.adjustments)
                          = n + TrackedLines(sales[id].items)
                    /\ \A k \in (n + 1)..Len(out.db.adjustments) :
                          out.db.adjustments[k].reason = "return"
                    /\ out.db.stock = same.db.stock
                    /\ out.db.adjustments = same.db.adjustments
    /\ \A p \in Products :
          ProductTable[p].track_stock =>
             stock[p] = InitStock[p] + SumChange(ManualRowsOf(p))
                        - QtyOf(SelectSeq(sales, IsCompleted), p)
                        + QtyOf(SelectSeq(sales, VoidedPending), p)

\* The sale of one p1 to the new customer was rejected for its payment of 2
\* on a total of 3, stayed pending with no stock taken, and was then voided:
\* one return row, and the stock of p1 is one above its first value.
C23_Witness ==
    \E id \in 1..Len(sales) :
        /\ VoidedPending(sales[id])
        /\ sales[id].customer = "n"
        /\ SumSeq(sales[id].payments) < sales[id].total
        /\ TrackedQty(sales[id].items, "p1") = 1
        /\ RowsWith("sale") = 0
        /\ RowsWith("return") = 1
        /\ stock["p1"] = InitStock["p1"] + 1

(* ------------------------------------------------------------------ *)
(* Two stock adjustments handled at the same time                       *)
(* ------------------------------------------------------------------ *)
\* Each request loads its own Product instance (self.get_object() of the
\* adjust_stock API, item.product of complete_sale), and adjust_stock then
\* works on that instance: old_stock = self.stock and self.stock += quantity
\* are reads and writes of the instance, save(update_fields=['stock']) is
\* the UPDATE that stores the instance's value, and the audit row is
\* inserted last.  No row is locked and the UPDATE is no F() expression.
StockCalls ==
    [product : {"p1", "p3"}, quantity : {-1, 1, 2}, reason : {"correction"}]
    \cup
    [product : {"p1"}, quantity : {-1, -2}, reason : {"sale"}]

\* A worker: the statement it is at, the call it handles and the stock
\* field of the Product instance it holds.
IdleStockWorker ==
    [pc |-> "idle", product |-> "", quantity |-> 0, reason |-> "",
     instance_stock |-> 0, old_stock |-> 0]

UnchangedByStockWorker == <<customers, sales, invoices, payments, today, call>>

\* A request arrives.
StockStart(w) ==
    /\ procs[w].pc = "idle"
    /\ \E c \in StockCalls :
          procs' = [procs EXCEPT ![w] =
                       [@ EXCEPT !.pc = "load", !.product = c.product,
                                 !.quantity = c.quantity, !.reason = c.reason]]
    /\ UNCHANGED <<stock, adjustments>>
    /\ UNCHANGED UnchangedByStockWorker

\* The SELECT that loads the Product instance.
StockLoad(w) ==
    /\ procs[w].pc = "load"
    /\ procs' = [procs EXCEPT ![w] =
                    [@ EXCEPT !.pc = "save",
                              !.instance_stock = stock[procs[w].product]]]
    /\ UNCHANGED <<stock, adjustments>>
    /\ UNCHANGED UnchangedByStockWorker

\* adjust_stock, lines 178-180: old_stock, self.stock += quantity, save.
StockSave(w) ==
    /\ procs[w].pc = "save"
    /\ LET new_stock == procs[w].instance_stock + procs[w].quantity
       IN  /\ stock' = [stock EXCEPT ![procs[w].product] = new_stock]
           /\ procs' = [procs EXCEPT ![w] =
                           [@ EXCEPT !.pc = "row",
                                     !.old_stock = procs[w].instance_stock,
                                     !.instance_stock = new_stock]]
    /\ UNCHANGED adjustments
    /\ UNCHANGED UnchangedByStockWorker

\* adjust_stock, lines 183-190: InventoryAdjustment.objects.create.
StockRow(w) ==
    /\ procs[w].pc = "row"
    /\ adjustments' =
          Append(adjustments,
                 [product |-> procs[w].product,
                  quantity_change |-> procs[w].quantity,
                  old_stock |-> procs[w].old_stock,
                  new_stock |-> procs[w].instance_stock,
                  reason |-> procs[w].reason, performed_by |-> Cashier])
    /\ procs' = [procs EXCEPT ![w] = [@ EXCEPT !.pc = "done"]]
    /\ UNCHANGED stock
    /\ UNCHANGED UnchangedByStockWorker

InitStockRace ==
    /\ stock = InitStock
    /\ adjustments = << >>
    /\ customers = InitCustomers
    /\ sales = << >>
    /\ invoices = << >>
    /\ payments = << >>
    /\ today = 0
    /\ procs = [w \in Workers |-> IdleStockWorker]
    /\ call = << >>

NextStockRace ==
    \E w \in Workers :
        StockStart(w) \/ StockLoad(w) \/ StockSave(w) \/ StockRow(w)

SpecStockRace == InitStockRace /\ [][NextStockRace]_vars

\* C24: adjust_stock is atomic with respect to concurrent callers: for two
\* calls on the same product with deltas d1 and d2 that overlap in time,
\* the final stock is the initial stock + d1 + d2 under every interleaving,
\* and the two audit rows chain (the new_stock of one is the old_stock of
\* the other).
C24_ConcurrentAdjustments ==
    (/\ \A w \in Workers : procs[w].pc = "done"
     /\ procs[1].product = procs[2].product)
    => LET p == procs[1].product
           rows == RowsOf(p)
       IN  /\ stock[p] = InitStock[p] + procs[1].quantity + procs[2].quantity
           /\ Len(rows) = 2
           /\ \/ rows[2].old_stock = rows[1].new_stock
              \/ rows[1].old_stock = rows[2].new_stock

(* ------------------------------------------------------------------ *)
(* The other writers of Product.stock                                   *)
(* ------------------------------------------------------------------ *)
\* stock is a field of ProductForm (src/catalog/forms.py lines 8-12), a
\* writable field of ProductSerializer (fields = '__all__') and column 8 of
\* the import sheet.  The three views store the submitted value with
\* Model.save / update_or_create and never call adjust_stock.
EditProducts == {"p1"}

\* Stock values of a submitted form, request body or sheet row.
EditStocks == {0, 3}

\* Product.save of a submitted stock value: the row is overwritten.
SetStock(db, p, value) == [db EXCEPT !.stock[p] = value]

\* POST product_update: form.save()
ProductUpdate ==
    \E p \in EditProducts, value \in EditStocks :
        Commit([db |-> SetStock(DB, p, value), result |-> "updated", sale |-> 0])

\* PUT / PATCH of ProductViewSet (ModelViewSet.update): serializer.save()
ProductRestUpdate ==
    \E p \in EditProducts, value \in EditStocks :
        Commit([db |-> SetStock(DB, p, value), result |-> "200", sale |-> 0])

\* POST product_import with a row for an existing sku: update_or_create
ProductImport ==
    \E p \in EditProducts, value \in EditStocks :
        Commit([db |-> SetStock(DB, p, value), result |-> "imported", sale |-> 0])

NextCatalog == Next \/ ProductUpdate \/ ProductRestUpdate \/ ProductImport

SpecCatalog == Init /\ [][NextCatalog]_vars

\* C25: every change of a product's stock through an operation the system
\* exposes (sale completion, void, the adjust_stock API, the product update
\* form, the product REST update, the Excel import) creates
\* InventoryAdjustment rows for it, and no operation updates or deletes an
\* existing row; so for every product the present stock is its first stock
\* plus the sum of quantity_change over its rows.
C25_StockIsSumOfRows ==
    /\ [](\A p \in Products :
             stock[p] = InitStock[p] + SumChange(RowsOf(p)))
    /\ [][/\ SubSeq(adjustments', 1, Len(adjustments)) = adjustments
          /\ \A p \in Products :
                stock'[p] # stock[p] =>
                   Len(SelectSeq(adjustments', LAMBDA a : a.product = p))
                      > Len(RowsOf(p))]_vars

(* ------------------------------------------------------------------ *)
(* Two payments recorded on an invoice at the same time                 *)
(* ------------------------------------------------------------------ *)
\* invoice_record_payment loads the invoice first (get_object_or_404) and
\* tests the amount against the balance_due of that instance; the Payment
\* and the InvoicePayment are inserted afterwards, and InvoicePayment.save
\* sums the links that are in the database at that time.  The view opens no
\* transaction and locks no row.
IdlePayWorker ==
    [pc |-> "idle", id |-> 0, amount |-> 0, balance_due |-> 0, result |-> ""]

\* A POST arrives and the view loads the invoice.
PayLoad(w) ==
    /\ procs[w].pc = "idle"
    /\ \E id \in 1..Len(invoices), amount \in PaymentAmounts :
          procs' = [procs EXCEPT ![w] =
                       [@ EXCEPT !.pc = "check", !.id = id, !.amount = amount,
                                 !.balance_due = balance_due(invoices[id])]]
    /\ UNCHANGED <<invoices, payments>>
    /\ UNCHANGED UnchangedByWorker

\* The two tests on the loaded instance, then the inserts.
PayWrite(w) ==
    /\ procs[w].pc = "check"
    /\ LET id == procs[w].id
           amount == procs[w].amount
       IN  IF amount <= 0
           THEN /\ procs' = [procs EXCEPT ![w] =
                                [@ EXCEPT !.pc = "done", !.result = "not_positive"]]
                /\ UNCHANGED <<invoices, payments>>
           ELSE IF amount > procs[w].balance_due
           THEN /\ procs' = [procs EXCEPT ![w] =
                                [@ EXCEPT !.pc = "done", !.result = "exceeds"]]
                /\ UNCHANGED <<invoices, payments>>
           ELSE /\ procs' = [procs EXCEPT ![w] =
                                [@ EXCEPT !.pc = "done", !.result = "recorded"]]
                /\ invoices' =
                      InvoicePaymentSave(invoices, id,
                          [payment |-> <<"invoice", invoices[id].sale,
                                         Len(payments) + 1>>,
                           amount |-> amount, notes |-> "",
                           recorded_by |-> Cashier],
                          today)
                /\ payments' = Append(payments,
                                  [sale |-> invoices[id].sale, amount |-> amount])
    /\ UNCHANGED UnchangedByWorker

InitPayRace ==
    /\ stock = SeedDB.stock
    /\ adjustments = SeedDB.adjustments
    /\ customers = SeedDB.customers
    /\ sales = SeedDB.sales
    /\ invoices = << >>
    /\ payments = << >>
    /\ today = 0
    /\ procs = [w \in Workers |-> IdlePayWorker]
    /\ call = << >>

NextPayRace ==
    \/ InvoiceFromSale
    \/ \E w \in Workers : PayLoad(w) \/ PayWrite(w)

SpecPayRace == InitPayRace /\ [][NextPayRace]_vars

\* C26: every invoice satisfies 0 <= amount_paid <= total_amount in every
\* state reached by invoice_from_sale and invoice_record_payment requests,
\* the invoice of a sale whose payments add up to more than its total
\* included, and two record_payment requests on one invoice that both pass
\* the balance test before either is stored.
C26_AmountPaidWithinTotal ==
    \A id \in 1..Len(invoices) :
        /\ 0 <= invoices[id].amount_paid
        /\ invoices[id].amount_paid <= invoices[id].total_amount

\* C27: stock conservation: when stock changes only through create_sale,
\* void and the adjust_stock API, the stock of each tracked product is its
\* first stock, plus the deltas of the manual adjustments, minus the line
\* quantities of the sales whose status is completed now; pending and
\* voided sales contribute nothing.
C27_StockConservation ==
    \A p \in Products :
        ProductTable[p].track_stock =>
           stock[p] = InitStock[p] + SumChange(ManualRowsOf(p))
                      - QtyOf(SelectSeq(sales, IsCompleted), p)

\* What the partially paid sales of the customer with phone ph left unpaid.
RECURSIVE Shortfall(_, _)
Shortfall(ss, ph) ==
    IF ss = << >> THEN 0
    ELSE (IF Head(ss).customer = ph /\ Head(ss).payment_status = "partial"
          THEN Head(ss).total - SumSeq(Head(ss).payments) ELSE 0)
         + Shortfall(Tail(ss), ph)

\* C28: void_sale changes nothing but the status, voided_at, voided_by and
\* void_reason of the sale and the stock, with its audit rows, of the
\* tracked products of the sale; customer.current_balance, the
\* payment_status and amount_paid of the sale and all Payment records stay
\* as they are, so a voided partially paid wholesale sale leaves its
\* shortfall on the balance of the customer.
C28_VoidFrame ==
    /\ \A id \in 1..Len(sales) :
          sales[id].status # "voided" =>
             \A inp \in VoidInputs :
                LET out == void(DB, id, inp)
                    after == out.db.sales[id]
                IN  /\ out.result = "voided"
                    /\ out.db.customers = customers
                    /\ Len(out.db.sales) = Len(sales)
                    /\ \A o \in 1..Len(sales) :
                          o # id => out.db.sales[o] = sales[o]
                    /\ after = [sales[id] EXCEPT
                                   !.status = "voided",
                                   !.voided_at = inp.now,
                                   !.voided_by = inp.user,
                                   !.void_reason = inp.reason]
                    /\ after.payment_status = sales[id].payment_status
                    /\ after.amount_paid = sales[id].amount_paid
                    /\ after.payments = sales[id].payments
                    /\ \A p \in Products :
                          TrackedQty(sales[id].items, p) = 0 =>
                             out.db.stock[p] = stock[p]
                    /\ SubSeq(out.db.adjustments, 1, Len(adjustments))
                          = adjustments
    /\ \A ph \in Phones :
          customers[ph].current_balance = Shortfall(sales, ph)

\* The wholesale customer bought for 6 and paid 3; the sale was completed
\* and then voided, and the 3 are still on the balance.
C28_Witness ==
    \E id \in 1..Len(sales) :
        /\ sales[id].status = "voided"
        /\ WasCompleted(sales[id])
        /\ sales[id].customer = "w"
        /\ sales[id].payment_status = "partial"
        /\ sales[id].total = 6
        /\ SumSeq(sales[id].payments) = 3
        /\ customers["w"].current_balance = 3

(* ------------------------------------------------------------------ *)
(* Invoices of one sale on credit                                       *)
(* ------------------------------------------------------------------ *)
\* create_sale requests of the wholesale customer: the totals 3, 6 and 9
\* with the payment sums 2, 3 and 6.
CreditRequests == {req \in Requests : req.phone = "w"}

\* The database after one of these requests.
InitCredit ==
    \E req \in CreditRequests :
        LET db == Replay([stock |-> InitStock, adjustments |-> << >>,
                          customers |-> InitCustomers, sales |-> << >>],
                         <<req>>)
        IN  /\ stock = db.stock
            /\ adjustments = db.adjustments
            /\ customers = db.customers
            /\ sales = db.sales
            /\ invoices = << >>
            /\ payments = << >>
            /\ today = 0
            /\ procs = << >>
            /\ call = << >>

NextCredit == InvoiceFromSale \/ RecordPayment \/ InvoiceCancel \/ Tick

SpecCredit == InitCredit /\ [][NextCredit]_vars

\* The sale was accepted with T * 0.5 <= P < T from a wholesale customer.
AcceptedPartial(sale) ==
    /\ customers[sale.customer].customer_type = "wholesale"
    /\ sale.status = "completed"
    /\ 2 * SumSeq(sale.payments) >= sale.total
    /\ SumSeq(sale.payments) < sale.total

\* C29: for a wholesale sale accepted with T * 0.5 <= P < T, the invoice
\* that invoice_from_sale generates right afterwards has amount_paid = P,
\* payment_status = partial and balance_due = T - P, the amount create_sale
\* added to customer.current_balance; a later accepted
\* invoice_record_payment of a lowers the balance_due of the invoice by a
\* and leaves customer.current_balance as it is.
C29_CreditInvoice ==
    /\ \A sale_id \in 1..Len(sales) :
          (AcceptedPartial(sales[sale_id]) /\ ~HasInvoice(invoices, sale_id)) =>
             LET sale == sales[sale_id]
                 out == invoice_from_sale(IDB, sales, sale_id, today)
                 inv == out.invoices[Len(out.invoices)]
                 T == sale.total
                 P == SumSeq(sale.payments)
             IN  /\ out.result = "created"
                 /\ inv.sale = sale_id
                 /\ inv.amount_paid = P
                 /\ inv.payment_status = "partial"
                 /\ balance_due(inv) = T - P
                 /\ customers[sale.customer].current_balance
                       = InitCustomers[sale.customer].current_balance + (T - P)
    /\ \A id \in 1..Len(invoices), a \in PaymentAmounts :
          LET out == invoice_record_payment(IDB, id, a, today)
          IN  out.result = "recorded" =>
                 balance_due(out.invoices[id]) = balance_due(invoices[id]) - a
    /\ \A id \in 1..Len(invoices) :
          (invoices[id].sale # 0 /\ AcceptedPartial(sales[invoices[id].sale])) =>
             LET sale == sales[invoices[id].sale]
                 T == sale.total
                 P == SumSeq(sale.payments)
             IN  /\ balance_due(invoices[id])
                       = T - P - SumAmount(payments)
                 /\ customers[sale.customer].current_balance
                       = InitCustomers[sale.customer].current_balance + (T - P)

\* The sale of total 6 was paid 3 at the till; its invoice took a further
\* payment of 1, so the invoice is owed 2 and the balance of the customer
\* still reads 3.
C29_Witness ==
    \E id \in 1..Len(invoices) :
        /\ invoices[id].sale # 0
        /\ AcceptedPartial(sales[invoices[id].sale])
        /\ invoices[id].total_amount = 6
        /\ invoices[id].amount_paid = 4
        /\ invoices[id].payment_status = "partial"
        /\ balance_due(invoices[id]) = 2
        /\ Len(payments) = 1
        /\ payments[1].amount = 1
        /\ customers["w"].current_balance = 3

\* Sum of the totals of InvoiceItem rows, in millionths of a minor unit.
RECURSIVE SumItemTotal(_)
SumItemTotal(items) ==
    IF items = << >> THEN 0 ELSE Head(items).total + SumItemTotal(Tail(items))

\* C30: for an invoice generated by invoice_from_sale, and for one created
\* by invoice_create, the sum of the InvoiceItem totals minus
\* discount_amount equals total_amount: the tax inside the line totals is
\* the tax inside the invoice total, with tax_rate copied from the SaleItem
\* or Product (a fraction between 0 and 1) into InvoiceItem.tax_rate (which
\* the line formula divides by 100).
C30_LineTotalsMatchInvoice ==
    \A id \in 1..Len(invoices) :
        SumItemTotal(invoices[id].items) - invoices[id].discount_amount * 1000000
           = invoices[id].total_amount * 1000000

====
